---- MODULE Spec2Model ----
(***************************************************************************)
(* Authentication subsystem of the Score web application: the operations   *)
(* adapter (SupabaseAuthRepository), the application service (AuthService),*)
(* the auth state store (SupabaseAuthStateObserver) and the server-side    *)
(* session reader with the pages that use it.                              *)
(*                                                                         *)
(* JavaScript strings that the code inspects (toLowerCase, includes,       *)
(* template concatenation) are sequences of one-character strings, so the  *)
(* string operations are computed, not assumed.                            *)
(***************************************************************************)
EXTENDS Naturals, Sequences, FiniteSets, TLC

(***************************************************************************)
(* String literals of the source.                                          *)
(***************************************************************************)
S_user_already_exists == <<"u", "s", "e", "r", "_", "a", "l", "r", "e",
    "a", "d", "y", "_", "e", "x", "i", "s", "t", "s">>
S_email_exists == <<"e", "m", "a", "i", "l", "_", "e", "x", "i", "s", "t",
    "s">>
S_USER_ALREADY_EXISTS == <<"U", "S", "E", "R", "_", "A", "L", "R", "E",
    "A", "D", "Y", "_", "E", "X", "I", "S", "T", "S">>
S_email_not_confirmed == <<"e", "m", "a", "i", "l", "_", "n", "o", "t",
    "_", "c", "o", "n", "f", "i", "r", "m", "e", "d">>
S_invalid_login_credentials == <<"i", "n", "v", "a", "l", "i", "d", "_",
    "l", "o", "g", "i", "n", "_", "c", "r", "e", "d", "e", "n", "t", "i",
    "a", "l", "s">>
S_invalid_credentials == <<"i", "n", "v", "a", "l", "i", "d", "_", "c",
    "r", "e", "d", "e", "n", "t", "i", "a", "l", "s">>
S_over_request_rate_limit == <<"o", "v", "e", "r", "_", "r", "e", "q", "u",
    "e", "s", "t", "_", "r", "a", "t", "e", "_", "l", "i", "m", "i", "t">>
S_email_not_confirmed_sp == <<"e", "m", "a", "i", "l", " ", "n", "o", "t",
    " ", "c", "o", "n", "f", "i", "r", "m", "e", "d">>
S_invalid_login == <<"i", "n", "v", "a", "l", "i", "d", " ", "l", "o", "g",
    "i", "n">>
S_already_registered == <<"a", "l", "r", "e", "a", "d", "y", " ", "r", "e",
    "g", "i", "s", "t", "e", "r", "e", "d">>
S_already_been_registered == <<"a", "l", "r", "e", "a", "d", "y", " ", "b",
    "e", "e", "n", " ", "r", "e", "g", "i", "s", "t", "e", "r", "e", "d">>
S_already_exists == <<"a", "l", "r", "e", "a", "d", "y", " ", "e", "x",
    "i", "s", "t", "s">>
M_AuthProviderError == <<"A", "u", "t", "h", " ", "p", "r", "o", "v", "i",
    "d", "e", "r", " ", "e", "r", "r", "o", "r">>
M_UserAlreadyRegistered == <<"U", "s", "e", "r", " ", "a", "l", "r", "e",
    "a", "d", "y", " ", "r", "e", "g", "i", "s", "t", "e", "r", "e", "d">>
M_HasAlreadyBeenRegistered == <<"A", " ", "u", "s", "e", "r", " ", "w",
    "i", "t", "h", " ", "t", "h", "i", "s", " ", "e", "m", "a", "i", "l",
    " ", "a", "d", "d", "r", "e", "s", "s", " ", "h", "a", "s", " ", "a",
    "l", "r", "e", "a", "d", "y", " ", "b", "e", "e", "n", " ", "r", "e",
    "g", "i", "s", "t", "e", "r", "e", "d">>
M_UserAlreadyExistsCaps == <<"U", "s", "e", "r", " ", "A", "l", "r", "e",
    "a", "d", "y", " ", "E", "x", "i", "s", "t", "s">>
M_EmailNotConfirmed == <<"E", "m", "a", "i", "l", " ", "n", "o", "t", " ",
    "c", "o", "n", "f", "i", "r", "m", "e", "d">>
M_InvalidLoginCredentials == <<"I", "n", "v", "a", "l", "i", "d", " ", "l",
    "o", "g", "i", "n", " ", "c", "r", "e", "d", "e", "n", "t", "i", "a",
    "l", "s">>
M_NetworkFailure == <<"N", "e", "t", "w", "o", "r", "k", " ", "f", "a",
    "i", "l", "u", "r", "e">>
M_unexpected == <<"u", "n", "e", "x", "p", "e", "c", "t", "e", "d">>
M_SignInMissing == <<"S", "i", "g", "n", " ", "i", "n", " ", "s", "u", "c",
    "c", "e", "e", "d", "e", "d", " ", "b", "u", "t", " ", "u", "s", "e",
    "r", " ", "o", "r", " ", "s", "e", "s", "s", "i", "o", "n", " ", "i",
    "s", " ", "m", "i", "s", "s", "i", "n", "g">>
M_SignUpNotCreated == <<"S", "i", "g", "n", " ", "u", "p", " ", "f", "a",
    "i", "l", "e", "d", ":", " ", "U", "s", "e", "r", " ", "w", "a", "s",
    " ", "n", "o", "t", " ", "c", "r", "e", "a", "t", "e", "d">>
M_UserEmailMissing == <<"U", "s", "e", "r", " ", "e", "m", "a", "i", "l",
    " ", "i", "s", " ", "m", "i", "s", "s", "i", "n", "g">>
M_UnknownError == <<"U", "n", "k", "n", "o", "w", "n", " ", "e", "r", "r",
    "o", "r">>
P_SignInFailed == <<"S", "i", "g", "n", " ", "i", "n", " ", "f", "a", "i",
    "l", "e", "d", ":", " ">>
P_SignUpFailed == <<"S", "i", "g", "n", " ", "u", "p", " ", "f", "a", "i",
    "l", "e", "d", ":", " ">>
P_SignOutFailed == <<"S", "i", "g", "n", " ", "o", "u", "t", " ", "f", "a",
    "i", "l", "e", "d", ":", " ">>
P_FailedToUpdatePassword == <<"F", "a", "i", "l", "e", "d", " ", "t", "o",
    " ", "u", "p", "d", "a", "t", "e", " ", "p", "a", "s", "s", "w", "o",
    "r", "d", ":", " ">>
P_FailedToRetrieveCurrentUser == <<"F", "a", "i", "l", "e", "d", " ", "t",
    "o", " ", "r", "e", "t", "r", "i", "e", "v", "e", " ", "c", "u", "r",
    "r", "e", "n", "t", " ", "u", "s", "e", "r", ":", " ">>
P_FailedToRetrieveSession == <<"F", "a", "i", "l", "e", "d", " ", "t", "o",
    " ", "r", "e", "t", "r", "i", "e", "v", "e", " ", "s", "e", "s", "s",
    "i", "o", "n", ":", " ">>
P_FailedToGetCurrentUser == <<"F", "a", "i", "l", "e", "d", " ", "t", "o",
    " ", "g", "e", "t", " ", "c", "u", "r", "r", "e", "n", "t", " ", "u",
    "s", "e", "r", ":", " ">>
P_FailedToGetSession == <<"F", "a", "i", "l", "e", "d", " ", "t", "o", " ",
    "g", "e", "t", " ", "s", "e", "s", "s", "i", "o", "n", ":", " ">>
EmptyStr == <<>>

\* JavaScript `undefined` for an optional string (distinct from "").
Undefined == <<"undefined">>

\* JavaScript `null` / a present value, for optional objects.
Null == <<>>
Some(x) == <<x>>
IsNull(o) == o = <<>>
Val(o) == o[1]

(***************************************************************************)
(* String primitives.                                                      *)
(***************************************************************************)
UpperChars == <<"A", "B", "C", "D", "E", "F", "G", "H", "I", "J", "K", "L",
    "M", "N", "O", "P", "Q", "R", "S", "T", "U", "V", "W", "X", "Y", "Z">>
LowerChars == <<"a", "b", "c", "d", "e", "f", "g", "h", "i", "j", "k", "l",
    "m", "n", "o", "p", "q", "r", "s", "t", "u", "v", "w", "x", "y", "z">>

ToLowerChar(c) ==
    IF \E i \in DOMAIN UpperChars : UpperChars[i] = c
    THEN LowerChars[CHOOSE i \in DOMAIN UpperChars : UpperChars[i] = c]
    ELSE c

\* String.prototype.toLowerCase
ToLowerCase(s) == [i \in DOMAIN s |-> ToLowerChar(s[i])]

\* String.prototype.includes
Includes(s, sub) ==
    \E k \in 0..Len(s) :
        /\ k + Len(sub) <= Len(s)
        /\ \A j \in 1..Len(sub) : s[k + j] = sub[j]

\* Truthiness of an optional string: undefined and "" are falsy.
Truthy(s) == s # Undefined /\ s # EmptyStr

(***************************************************************************)
(* Provider (supabase-js) wire shapes: the inputs of the adapters.         *)
(***************************************************************************)
\* An atomic optional field that the code only tests for truthiness.
UndefAtom == "undefined"
TruthyAtom(a) == a # UndefAtom /\ a # ""

\* user.identities: absent, null, or an array of identities.
NullIds == <<"null">>
IdentityLists == {Undefined, NullIds, <<>>, <<"identity-1">>}

ProviderUser(id, email, created, updated, ids) ==
    [id |-> id, email |-> email, created_at |-> created,
     updated_at |-> updated, identities |-> ids]

Emails == {"new@example.com", "", UndefAtom}
Timestamps == {"2026-02-08T00:00:00.000Z", UndefAtom}

\* Users as returned by signUp: identities vary.
ProviderSignUpUsers ==
    {ProviderUser("user-1", e, c, u, ids) :
        e \in Emails, c \in Timestamps, u \in Timestamps, ids \in IdentityLists}

\* Users as carried by sessions and by signInWithPassword.
ProviderUsers ==
    {ProviderUser("user-1", e, c, u, Undefined) :
        e \in Emails, c \in Timestamps, u \in Timestamps}

\* expires_at in unix seconds; 0 stands for a missing (falsy) expires_at.
ExpiresAtValues == {0, 1700}

ProviderSessions ==
    {[access_token |-> "access-token", refresh_token |-> "refresh-token",
      expires_at |-> x, user |-> u] : x \in ExpiresAtValues, u \in ProviderUsers}

ProviderMessages ==
    {M_AuthProviderError, M_UserAlreadyRegistered, M_HasAlreadyBeenRegistered,
     M_UserAlreadyExistsCaps, M_EmailNotConfirmed, M_InvalidLoginCredentials,
     M_NetworkFailure, S_email_not_confirmed, S_invalid_credentials, EmptyStr}

ProviderCodes ==
    {Undefined, EmptyStr, S_user_already_exists, S_email_exists,
     S_USER_ALREADY_EXISTS, S_email_not_confirmed, S_invalid_credentials,
     S_over_request_rate_limit}

\* SupabaseErrorLike
ProviderErrors == {[message |-> m, code |-> c] : m \in ProviderMessages, c \in ProviderCodes}

(***************************************************************************)
(* JavaScript thrown values and promise outcomes.                          *)
(***************************************************************************)
\* An Error object with an optional code property.
JsError(message, code) == [kind |-> "Error", message |-> message, code |-> code]
\* A thrown value that is not an Error (a string, an object literal).
NonError == [kind |-> "NonError", message |-> Undefined, code |-> Undefined]

Resolved(v) == [tag |-> "resolved", value |-> v]
Rejected(e) == [tag |-> "rejected", error |-> e]
\* Promise<void> resolving.
Void == <<"void">>

\* A provider call either returns {data, error} or itself rejects.
ProviderThrows ==
    {JsError(M_NetworkFailure, Undefined), NonError,
     JsError(M_AuthProviderError, S_over_request_rate_limit)}
Returned(error, user, session) ==
    [threw |-> FALSE, error |-> error, user |-> user, session |-> session]
Threw(e) == [threw |-> TRUE, thrown |-> e]

SignInResponses ==
    {Threw(e) : e \in ProviderThrows}
    \cup {Returned(Some(e), Null, Null) : e \in ProviderErrors}
    \cup {Returned(Null, u, s) :
            u \in {Null} \cup {Some(x) : x \in ProviderUsers},
            s \in {Null} \cup {Some(x) : x \in ProviderSessions}}

SignUpResponses ==
    {Threw(e) : e \in ProviderThrows}
    \cup {Returned(Some(e), Null, Null) : e \in ProviderErrors}
    \cup {Returned(Null, u, s) :
            u \in {Null} \cup {Some(x) : x \in ProviderSignUpUsers},
            s \in {Null} \cup {Some(x) : x \in ProviderSessions}}

\* signOut, resetPasswordForEmail, updateUser: {error}.
ErrorOnlyResponses ==
    {Threw(e) : e \in ProviderThrows}
    \cup {Returned(e, Null, Null) : e \in {Null} \cup {Some(x) : x \in ProviderErrors}}

\* getUser: {data: {user}, error}; getSession: {data: {session}, error}.
GetUserResponses ==
    {Threw(e) : e \in ProviderThrows}
    \cup {Returned(Some(e), Null, Null) : e \in ProviderErrors}
    \cup {Returned(Null, u, Null) : u \in {Null} \cup {Some(x) : x \in ProviderUsers}}

GetSessionResponses ==
    {Threw(e) : e \in ProviderThrows}
    \cup {Returned(Some(e), Null, Null) : e \in ProviderErrors}
    \cup {Returned(Null, Null, s) : s \in {Null} \cup {Some(x) : x \in ProviderSessions}}

(***************************************************************************)
(* Mapping of provider payloads to domain types (both adapters).           *)
(***************************************************************************)
\* Date.now() in milliseconds at the time of a mapping.
NowMs == 5000
MsPerSecond == 1000
DefaultSessionSeconds == 3600

\* new Date(iso) / new Date()
DateOf(iso) == IF TruthyAtom(iso) THEN iso ELSE "now"

UserEmailMissing(u) == ~TruthyAtom(u.email)

\* mapSupabaseUserToAuthUser, for a user with an email.
MapUser(u) ==
    [id |-> u.id, email |-> u.email,
     createdAt |-> DateOf(u.created_at), updatedAt |-> DateOf(u.updated_at)]

ExpiresAtOf(s) ==
    IF s.expires_at # 0
    THEN s.expires_at * MsPerSecond
    ELSE NowMs + DefaultSessionSeconds * MsPerSecond

\* mapSupabaseSessionToAuthSession, for a session whose user has an email.
MapSession(s) ==
    [accessToken |-> s.access_token, refreshToken |-> s.refresh_token,
     expiresAt |-> ExpiresAtOf(s), user |-> MapUser(s.user)]

(***************************************************************************)
(* SupabaseAuthRepository.                                                 *)
(***************************************************************************)
\* createAuthError: the code property is set only for a truthy code.
CreateAuthError(message, code) ==
    JsError(message, IF Truthy(code) THEN code ELSE Undefined)

\* A variant that recognises a duplicate by its native code only.
IsDuplicateSignUpError_CodeOnly(error) ==
    LET normalizedCode == IF error.code = Undefined THEN Undefined
                          ELSE ToLowerCase(error.code)
    IN  \/ normalizedCode = S_user_already_exists
        \/ normalizedCode = S_email_exists

IsDuplicateSignUpError(error) ==
    LET normalizedCode == IF error.code = Undefined THEN Undefined
                          ELSE ToLowerCase(error.code)
        normalizedMessage == ToLowerCase(error.message)
    IN  \/ normalizedCode = S_user_already_exists
        \/ normalizedCode = S_email_exists
        \/ Includes(normalizedMessage, S_already_registered)
        \/ Includes(normalizedMessage, S_already_been_registered)
        \/ Includes(normalizedMessage, S_already_exists)

\* A variant that also takes a null identities field for an empty list.
IsExistingUserObfuscatedSignUp_NullToo(user) ==
    user.identities = <<>> \/ user.identities = NullIds

IsExistingUserObfuscatedSignUp(user) ==
    /\ user.identities # Undefined
    /\ user.identities # NullIds
    /\ Len(user.identities) = 0

\* The code signIn attaches to a provider error.
\* A variant that tries the message patterns before the provider's code.
SignInErrorCode_MessageFirst(error) ==
    LET message == ToLowerCase(error.message)
    IN  IF \/ Includes(message, S_email_not_confirmed)
           \/ Includes(message, S_email_not_confirmed_sp)
        THEN S_email_not_confirmed
        ELSE IF \/ Includes(message, S_invalid_login)
                \/ Includes(message, S_invalid_credentials)
             THEN S_invalid_login_credentials
             ELSE IF Truthy(error.code) THEN error.code ELSE Undefined

\* A variant that falls back to the message text itself as the code.
SignInErrorCode_RawMessage(error) ==
    IF Truthy(error.code) THEN error.code ELSE ToLowerCase(error.message)

SignInErrorCode(error) ==
    IF Truthy(error.code) THEN error.code
    ELSE LET message == ToLowerCase(error.message)
         IN  IF \/ Includes(message, S_email_not_confirmed)
                \/ Includes(message, S_email_not_confirmed_sp)
             THEN S_email_not_confirmed
             ELSE IF \/ Includes(message, S_invalid_login)
                     \/ Includes(message, S_invalid_credentials)
                  THEN S_invalid_login_credentials
                  ELSE Undefined

RepoSignIn(resp) ==
    IF resp.threw THEN Rejected(resp.thrown)
    ELSE IF ~IsNull(resp.error)
    THEN Rejected(JsError(Val(resp.error).message, SignInErrorCode(Val(resp.error))))
    ELSE IF IsNull(resp.user) \/ IsNull(resp.session)
    THEN Rejected(JsError(M_SignInMissing, Undefined))
    ELSE IF UserEmailMissing(Val(resp.user)) \/ UserEmailMissing(Val(resp.session).user)
    THEN Rejected(JsError(M_UserEmailMissing, Undefined))
    ELSE Resolved([user |-> MapUser(Val(resp.user)),
                   session |-> MapSession(Val(resp.session))])

\* A variant that passes the provider's session through.
RepoSignUp_WithSession(resp) ==
    IF resp.threw THEN Rejected(resp.thrown)
    ELSE IF ~IsNull(resp.error)
    THEN IF IsDuplicateSignUpError(Val(resp.error))
         THEN Rejected(CreateAuthError(Val(resp.error).message, S_user_already_exists))
         ELSE Rejected(CreateAuthError(Val(resp.error).message, Val(resp.error).code))
    ELSE IF IsNull(resp.user)
    THEN Rejected(JsError(M_SignUpNotCreated, Undefined))
    ELSE IF IsExistingUserObfuscatedSignUp(Val(resp.user))
    THEN Rejected(CreateAuthError(M_UserAlreadyRegistered, S_user_already_exists))
    ELSE IF UserEmailMissing(Val(resp.user))
    THEN Rejected(JsError(M_UserEmailMissing, Undefined))
    ELSE IF IsNull(resp.session)
    THEN Resolved([user |-> MapUser(Val(resp.user))])
    ELSE Resolved([user |-> MapUser(Val(resp.user)), session |-> Val(resp.session)])

RepoSignUp(resp) ==
    IF resp.threw THEN Rejected(resp.thrown)
    ELSE IF ~IsNull(resp.error)
    THEN IF IsDuplicateSignUpError(Val(resp.error))
         THEN Rejected(CreateAuthError(Val(resp.error).message, S_user_already_exists))
         ELSE Rejected(CreateAuthError(Val(resp.error).message, Val(resp.error).code))
    ELSE IF IsNull(resp.user)
    THEN Rejected(JsError(M_SignUpNotCreated, Undefined))
    ELSE IF IsExistingUserObfuscatedSignUp(Val(resp.user))
    THEN Rejected(CreateAuthError(M_UserAlreadyRegistered, S_user_already_exists))
    ELSE IF UserEmailMissing(Val(resp.user))
    THEN Rejected(JsError(M_UserEmailMissing, Undefined))
    ELSE Resolved([user |-> MapUser(Val(resp.user))])

RepoSignOut(resp) ==
    IF resp.threw THEN Rejected(resp.thrown)
    ELSE IF ~IsNull(resp.error)
    THEN Rejected(JsError(P_SignOutFailed \o Val(resp.error).message, Undefined))
    ELSE Resolved(Void)

\* The provider error is logged, never thrown.
\* A variant that throws the error the provider reported.
RepoRequestPasswordReset_Throws(resp) ==
    IF resp.threw THEN Rejected(resp.thrown)
    ELSE IF ~IsNull(resp.error) THEN Rejected(CreateAuthError(Val(resp.error).message, Undefined))
    ELSE Resolved(Void)

RepoRequestPasswordReset(resp) ==
    IF resp.threw THEN Rejected(resp.thrown)
    ELSE Resolved(Void)

\* The errors requestPasswordReset hands to console.error.
RequestPasswordResetLogged(resp) ==
    IF ~resp.threw /\ ~IsNull(resp.error) THEN <<Val(resp.error)>> ELSE <<>>

RepoUpdatePassword(resp) ==
    IF resp.threw THEN Rejected(resp.thrown)
    ELSE IF ~IsNull(resp.error)
    THEN Rejected(JsError(Val(resp.error).message, Undefined))
    ELSE Resolved(Void)

RepoGetCurrentUser(resp) ==
    IF resp.threw THEN Rejected(resp.thrown)
    ELSE IF ~IsNull(resp.error)
    THEN Rejected(JsError(P_FailedToGetCurrentUser \o Val(resp.error).message, Undefined))
    ELSE IF IsNull(resp.user) THEN Resolved(Null)
    ELSE IF UserEmailMissing(Val(resp.user))
    THEN Rejected(JsError(M_UserEmailMissing, Undefined))
    ELSE Resolved(Some(MapUser(Val(resp.user))))

RepoGetSession(resp) ==
    IF resp.threw THEN Rejected(resp.thrown)
    ELSE IF ~IsNull(resp.error)
    THEN Rejected(JsError(P_FailedToGetSession \o Val(resp.error).message, Undefined))
    ELSE IF IsNull(resp.session) THEN Resolved(Null)
    ELSE IF UserEmailMissing(Val(resp.session).user)
    THEN Rejected(JsError(M_UserEmailMissing, Undefined))
    ELSE Resolved(Some(MapSession(Val(resp.session))))

(***************************************************************************)
(* AuthService: each method awaits the repository and handles a rejection. *)
(***************************************************************************)
\* error instanceof Error ? error.message : "Unknown error"
MessageOrUnknown(e) == IF e.kind = "Error" THEN e.message ELSE M_UnknownError

\* catch (error) { throw new Error(prefix + message) }
WrapWithPrefix(prefix, out) ==
    IF out.tag = "resolved" THEN out
    ELSE Rejected(JsError(prefix \o MessageOrUnknown(out.error), Undefined))

ServiceGetCurrentUser(out) == WrapWithPrefix(P_FailedToRetrieveCurrentUser, out)
ServiceGetSession(out) == WrapWithPrefix(P_FailedToRetrieveSession, out)
ServiceSignIn(out) == WrapWithPrefix(P_SignInFailed, out)
ServiceSignOut(out) == WrapWithPrefix(P_SignOutFailed, out)
ServiceUpdatePassword(out) == WrapWithPrefix(P_FailedToUpdatePassword, out)

\* A variant that wraps every rejection like the other methods do.
ServiceSignUp_AlwaysWrap(out) == WrapWithPrefix(P_SignUpFailed, out)

ServiceSignUp(out) ==
    IF out.tag = "resolved" THEN out
    ELSE IF out.error.kind = "Error" /\ out.error.message # EmptyStr
    THEN out
    ELSE Rejected(JsError(P_SignUpFailed \o MessageOrUnknown(out.error), Undefined))

\* A variant that lets the repository's rejection through.
ServiceRequestPasswordReset_Rethrow(out) == out

\* catch {} : every repository outcome ends in a resolved promise.
ServiceRequestPasswordReset(out) == Resolved(Void)

(***************************************************************************)
(* State.                                                                  *)
(***************************************************************************)
VARIABLES
    call,       \* the last AuthService call: operation, provider response,
                \* repository outcome and the outcome its caller observes
    state,      \* SupabaseAuthStateObserver.state: {user, session, status},
                \* user and session being references into the heap (0: null)
    heap,       \* the AuthUser and AuthSession objects created by the observer
    listeners,  \* SupabaseAuthStateObserver.listeners, in insertion order
    unsubscribe,\* SupabaseAuthStateObserver.unsubscribe is non-null
    channel,    \* the provider's change channel still calls the observer
    cycle,      \* position of updateState's listeners.forEach, when running
    version,    \* number of the provider event that set the current state
    delivered,  \* per listener, the versions of the states it was invoked with
    seen,       \* per listener, the value of its last invocation, as it saw it
    held,       \* per holder, the AuthState object it was last handed
    events,     \* number of provider events handled so far
    subscribes, \* number of subscribe calls so far
    handles,    \* listeners for which subscribe returned an unsubscribe closure
    closures,   \* the closures subscribe returned, in order: the listener each
                \* deletes and whether it has been called
    lastOp,     \* the operation of the last step on the store; for a step of
                \* the notification loop also whether a callback of this loop
                \* has subscribed and which listeners its callbacks removed
    localStorage, \* the session the browser's Supabase client has persisted
    cookies,    \* the auth cookies the browser sends with every request
    rendered,   \* what the server answered to the browser's last request
    ui,         \* the form submission in progress: the form, where its
                \* handler stands, what it has done so far, its pending timer
    hooks       \* per component instance that calls useAuth: whether it is
                \* mounted, its listener function, its unsubscribe closure,
                \* the AuthState its useState holds, what RequireAuth renders

svcVars == <<call>>
storeVars == <<state, heap, listeners, unsubscribe, channel, cycle, version, delivered, seen,
               held, handles, closures, events, subscribes, lastOp>>
pageVars == <<localStorage, cookies, rendered>>
formVars == <<ui, hooks>>
vars == <<svcVars, storeVars, pageVars, formVars>>

NoCall == [op |-> "none"]

(***************************************************************************)
(* SupabaseAuthStateObserver: the auth state store.                        *)
(*                                                                         *)
(* An AuthState object is created afresh by every getSnapshot and by every *)
(* handleAuthStateChange, so it is a value here; the AuthUser and          *)
(* AuthSession objects it points to are shared, so they live in a heap and *)
(* an AuthState holds references to them.                                  *)
(***************************************************************************)
NumListeners == 2
MaxEvents == 2
MaxSubscribes == 2
MaxMutations == 1

\* Listener functions; holder 0 is a caller of getSnapshot.
Listeners == 1..NumListeners
Caller == 0
Holders == {Caller} \cup Listeners

NullRef == 0

\* Session payloads delivered by onAuthStateChange: the user has an email
\* or lacks it.
EventSessions ==
    {s \in ProviderSessions :
        /\ s.expires_at # 0
        /\ s.user.email # ""
        /\ TruthyAtom(s.user.created_at)
        /\ TruthyAtom(s.user.updated_at)}

EventPayloads == {Null} \cup {Some(s) : s \in EventSessions}

\* private state: AuthState = { user: null, session: null, status: "loading" }
InitialState == [user |-> NullRef, session |-> NullRef, status |-> "loading"]

UnauthenticatedState == [user |-> NullRef, session |-> NullRef, status |-> "unauthenticated"]

\* A holder that was handed nothing yet.
NoValue == [user |-> NullRef, session |-> NullRef, status |-> "none"]

\* The AuthSession object: its user field refers to another AuthUser object.
SessionObject(s, userRef) == [MapSession(s) EXCEPT !.user = userRef]

\* The three objects handleAuthStateChange creates for a session payload:
\* the user, the session's own user, the session.
ObjectsFor(s, base) == <<MapUser(s.user), MapUser(s.user), SessionObject(s, base + 2)>>

AuthenticatedState(base) ==
    [user |-> base + 1, session |-> base + 3, status |-> "authenticated"]

\* A variant that reports a signed-out event with the previous user kept.
StateAfterSignedOut_KeepUser(old) == [old EXCEPT !.status = "unauthenticated"]

\* handleAuthStateChange, else branch.
StateAfterSignedOut(old) == UnauthenticatedState

\* getSnapshot: { ...this.state }, a new object with the same references.
GetSnapshot(st) == [user |-> st.user, session |-> st.session, status |-> st.status]

\* What a reader of an AuthState sees, following its references.
DeepUser(ref, hp) == IF ref = NullRef THEN Null ELSE Some(hp[ref])
DeepSession(ref, hp) ==
    IF ref = NullRef THEN Null
    ELSE Some([hp[ref] EXCEPT !.user = hp[hp[ref].user]])
Deep(st, hp) ==
    [user |-> DeepUser(st.user, hp), session |-> DeepSession(st.session, hp),
     status |-> st.status]

\* A variant of delete that leaves the entry in the set.
SetDelete_Keeps(ls, l) == ls

\* Set.prototype.add / delete on the insertion-ordered listener set.
Position(ls, l) == IF \E i \in 1..Len(ls) : ls[i] = l
                   THEN CHOOSE i \in 1..Len(ls) : ls[i] = l
                   ELSE 0
SetAdd(ls, l) == IF Position(ls, l) # 0 THEN ls ELSE Append(ls, l)
SetDelete(ls, l) == SelectSeq(ls, LAMBDA x : x # l)

Idle == [active |-> FALSE, idx |-> 0]

\* Listener functions are interchangeable: they are first used in the order
\* of their numbers.
MayBeSubscribed(l, known) == l = 1 \/ l \in known \/ (l - 1) \in known

\* listeners.forEach after `visited` entries: running while entries remain.
ForEachAt(ls, visited) ==
    IF visited < Len(ls) THEN [active |-> TRUE, idx |-> visited] ELSE Idle

InitStore ==
    /\ state = InitialState
    /\ heap = <<>>
    /\ listeners = <<>>
    /\ unsubscribe = TRUE
    /\ channel = TRUE
    /\ cycle = Idle
    /\ version = 0
    /\ delivered = [l \in Listeners |-> <<>>]
    /\ seen = [l \in Listeners |-> Deep(NoValue, <<>>)]
    /\ held = [h \in Holders |-> NoValue]
    /\ handles = {}
    /\ closures = <<>>
    /\ events = 0
    /\ subscribes = 0
    /\ lastOp = [op |-> "init"]

\* updateState: this.state = newState; listeners.forEach(...)
UpdateState(newState) ==
    /\ state' = newState
    /\ version' = events + 1
    /\ cycle' = ForEachAt(listeners, 0)

\* A variant whose mapping accepts a user without an email.
MappingThrows_Never(payload) == FALSE

\* mapSupabaseUserToAuthUser: if (!supabaseUser.email) throw.
MappingThrows(payload) == ~IsNull(payload) /\ UserEmailMissing(Val(payload).user)

\* handleAuthStateChange up to the start of the notification loop; a throw
\* in the mapping leaves the state as it was.
HandleAuthStateChange(payload) ==
    IF IsNull(payload)
    THEN /\ UpdateState(StateAfterSignedOut(state))
         /\ heap' = heap
    ELSE IF MappingThrows(payload)
    THEN UNCHANGED <<state, heap, cycle, version>>
    ELSE /\ UpdateState(AuthenticatedState(Len(heap)))
         /\ heap' = heap \o ObjectsFor(Val(payload), Len(heap))

\* The provider's change channel invokes the observer's callback, which runs
\* handleAuthStateChange up to the start of the notification loop.
ProviderEvent ==
    /\ channel
    /\ ~cycle.active
    /\ events < MaxEvents
    /\ events' = events + 1
    /\ \E payload \in EventPayloads :
        /\ HandleAuthStateChange(payload)
        /\ lastOp' = [op |-> "event", threw |-> MappingThrows(payload),
                      email |-> IF IsNull(payload) THEN "none" ELSE Val(payload).user.email]
    /\ UNCHANGED <<listeners, unsubscribe, channel, delivered, seen, held, handles, closures,
                   subscribes, svcVars, formVars, pageVars>>

\* What a listener's callback does while it runs: nothing more than keeping
\* the value, throwing, calling an unsubscribe closure, or subscribing.
CallbackBehaviours ==
    {[kind |-> "keep", l |-> 0, c |-> 0], [kind |-> "throw", l |-> 0, c |-> 0],
     [kind |-> "dispose", l |-> 0, c |-> 0]}
    \cup {[kind |-> "unsubscribe", l |-> j, c |-> i] : j \in Listeners, i \in 1..MaxSubscribes}
    \cup {[kind |-> "subscribe", l |-> j, c |-> 0] : j \in Listeners}

\* The closure subscribe(l) returns, not yet called.
Closure(l) == [l |-> l, called |-> FALSE]

\* A variant of dispose that leaves the provider subscription in place.
ChannelAfterDispose_Attached(ch, unsub) == ch

\* dispose: if (this.unsubscribe) this.unsubscribe() detaches the channel.
ChannelAfterDispose(ch, unsub) == IF unsub THEN FALSE ELSE ch

\* A variant of subscribe that registers the listener without calling it.
SubscribeInvokes_None(l) == <<>>

\* subscribe calls the listener once: listener(this.getSnapshot()).
SubscribeInvokes(l) == <<l>>

\* Invocations listener(value): each is logged in order for its listener.
Invoke(log, ls) ==
    IF ls = <<>> THEN log
    ELSE LET rest == Tail(ls)
             one == [log EXCEPT ![Head(ls)] = Append(@, version)]
         IN  IF rest = <<>> THEN one
             ELSE [one EXCEPT ![Head(rest)] = Append(@, version)]

\* One iteration of updateState's forEach: listener(this.getSnapshot()).
Deliver ==
    /\ cycle.active
    /\ LET l == listeners[cycle.idx + 1]
           value == GetSnapshot(state)
       IN \E b \in CallbackBehaviours :
            /\ b.kind = "unsubscribe" => b.c <= Len(closures) /\ closures[b.c].l = b.l
            /\ b.kind = "subscribe" =>
                    subscribes < MaxSubscribes /\ MayBeSubscribed(b.l, handles)
            /\ LET pos == Position(listeners, b.l)
                   ls == CASE b.kind = "unsubscribe" -> SetDelete(listeners, b.l)
                           [] b.kind = "subscribe" -> SetAdd(listeners, b.l)
                           [] b.kind = "dispose" -> <<>>
                           [] OTHER -> listeners
                   visited == IF b.kind = "unsubscribe" /\ pos # 0 /\ pos <= cycle.idx + 1
                              THEN cycle.idx
                              ELSE cycle.idx + 1
                   invoked == IF b.kind = "subscribe"
                              THEN <<l>> \o SubscribeInvokes(b.l) ELSE <<l>>
               IN /\ listeners' = ls
                  /\ cycle' = IF b.kind = "throw" THEN Idle ELSE ForEachAt(ls, visited)
                  /\ delivered' = Invoke(delivered, invoked)
                  /\ seen' = [x \in Listeners |->
                                IF x \in {l, b.l} /\ (x = l \/ b.kind = "subscribe")
                                THEN Deep(value, heap) ELSE seen[x]]
                  /\ held' = [x \in Holders |->
                                IF x \in {l, b.l} /\ (x = l \/ b.kind = "subscribe")
                                THEN value ELSE held[x]]
                  /\ handles' = IF b.kind = "subscribe" THEN handles \cup {b.l} ELSE handles
                  /\ closures' = CASE b.kind = "subscribe" -> Append(closures, Closure(b.l))
                                   [] b.kind = "unsubscribe" ->
                                        [closures EXCEPT ![b.c].called = TRUE]
                                   [] OTHER -> closures
                  /\ IF b.kind = "dispose"
                     THEN /\ channel' = ChannelAfterDispose(channel, unsubscribe)
                          /\ unsubscribe' = FALSE
                     ELSE UNCHANGED <<channel, unsubscribe>>
                  /\ subscribes' = IF b.kind = "subscribe" THEN subscribes + 1 ELSE subscribes
                  /\ lastOp' = [op |-> "deliver", l |-> l,
                                sub |-> IF b.kind = "subscribe" THEN b.l ELSE 0,
                                subs |-> \/ b.kind = "subscribe"
                                         \/ lastOp.op = "deliver" /\ lastOp.subs,
                                cut |-> (IF lastOp.op = "deliver" THEN lastOp.cut ELSE {})
                                        \cup (IF b.kind = "unsubscribe" /\ pos # 0
                                              THEN {b.l} ELSE {})]
    /\ UNCHANGED <<state, heap, version, events, svcVars, formVars, pageVars>>

\* subscribe(listener): add, replay the current snapshot, return the
\* closure that deletes the listener.
Subscribe ==
    /\ ~cycle.active
    /\ subscribes < MaxSubscribes
    /\ \E l \in Listeners :
        /\ MayBeSubscribed(l, handles)
        /\ listeners' = SetAdd(listeners, l)
        /\ delivered' = Invoke(delivered, SubscribeInvokes(l))
        /\ seen' = [seen EXCEPT ![l] = Deep(GetSnapshot(state), heap)]
        /\ held' = [held EXCEPT ![l] = GetSnapshot(state)]
        /\ handles' = handles \cup {l}
        /\ closures' = Append(closures, Closure(l))
        /\ lastOp' = [op |-> "subscribe", l |-> l]
    /\ subscribes' = subscribes + 1
    /\ UNCHANGED <<state, heap, version, unsubscribe, channel, cycle, events, svcVars, formVars, pageVars>>

\* A closure returned by subscribe(l) is called: this.listeners.delete(l).
Unsubscribe ==
    /\ ~cycle.active
    /\ \E i \in 1..Len(closures) :
        /\ listeners' = SetDelete(listeners, closures[i].l)
        /\ closures' = [closures EXCEPT ![i].called = TRUE]
        /\ lastOp' = [op |-> "unsubscribe", l |-> closures[i].l,
                      again |-> closures[i].called]
    /\ UNCHANGED <<state, heap, unsubscribe, channel, cycle, version, delivered, seen, held,
                   handles, events, subscribes, svcVars, formVars, pageVars>>

Dispose ==
    /\ ~cycle.active
    /\ channel' = ChannelAfterDispose(channel, unsubscribe)
    /\ unsubscribe' = FALSE
    /\ listeners' = <<>>
    /\ lastOp' = [op |-> "dispose"]
    /\ UNCHANGED <<state, heap, cycle, version, delivered, seen, held, handles, closures, events,
                   subscribes, svcVars, formVars, pageVars>>

\* A caller reads getSnapshot() and keeps the returned object.
ReadSnapshot ==
    /\ ~cycle.active
    /\ held' = [held EXCEPT ![Caller] = GetSnapshot(state)]
    /\ lastOp' = [op |-> "getSnapshot"]
    /\ UNCHANGED <<state, heap, listeners, unsubscribe, channel, cycle, version, delivered, seen,
                   handles, closures, events, subscribes, svcVars, formVars, pageVars>>

\* The writes holders have performed so far on what they were handed.
Tampered == {h \in Holders : held[h].status = "tampered"}

Mutated ==
    {i \in 1..Len(heap) :
        \/ "email" \in DOMAIN heap[i] /\ heap[i].email = "mutated@example.com"
        \/ "accessToken" \in DOMAIN heap[i] /\ heap[i].accessToken = "mutated-token"}

\* A holder assigns to the fields of the AuthState object it was handed.
MutateTop ==
    /\ ~cycle.active
    /\ Cardinality(Tampered) + Cardinality(Mutated) < MaxMutations
    /\ \E h \in Holders :
        /\ held[h].status \notin {"none", "tampered"}
        /\ held' = [held EXCEPT ![h] = [user |-> NullRef, session |-> NullRef,
                                        status |-> "tampered"]]
        /\ lastOp' = [op |-> "mutateTop", h |-> h]
    /\ UNCHANGED <<state, heap, listeners, unsubscribe, channel, cycle, version, delivered, seen,
                   handles, closures, events, subscribes, svcVars, formVars, pageVars>>

\* A holder assigns to a field of the user or session object that the
\* AuthState it was handed refers to.
MutateNested ==
    /\ ~cycle.active
    /\ Cardinality(Tampered) + Cardinality(Mutated) < MaxMutations
    /\ \E h \in Holders :
        /\ held[h].user # NullRef
        /\ \/ heap' = [heap EXCEPT ![held[h].user].email = "mutated@example.com"]
           \/ heap' = [heap EXCEPT ![held[h].session].accessToken = "mutated-token"]
           \/ heap' = [heap EXCEPT ![heap[held[h].session].user].email = "mutated@example.com"]
        /\ heap' # heap
        /\ lastOp' = [op |-> "mutateNested", h |-> h]
    /\ UNCHANGED <<state, listeners, unsubscribe, channel, cycle, version, delivered, seen, held,
                   handles, closures, events, subscribes, svcVars, formVars, pageVars>>

\* No browser session is involved: nothing persisted, nothing requested.
NoCookie == [kind |-> "none"]
NotRequested == [route |-> "none", view |-> "none"]
\* Component instances that call useAuth (each a RequireAuth).
NumInstances == 2
Instances == 1..NumInstances

\* What RequireAuth has rendered and whether its effect called
\* router.replace("/login"); nothing for an instance that is not rendered.
NoOutput == [children |-> FALSE, redirect |-> FALSE]

\* An instance that was never rendered.
NoHook ==
    [phase |-> "unmounted", listener |-> 0, closure |-> 0, state |-> NoValue,
     out |-> NoOutput, stale |-> FALSE]

\* No form has been submitted.
NoSubmission == [form |-> "none", pc |-> "none", trace |-> <<>>, timer |-> FALSE]

NoBrowser ==
    /\ localStorage = Null
    /\ cookies = NoCookie
    /\ rendered = NotRequested
    /\ ui = NoSubmission
    /\ hooks = [c \in Instances |-> NoHook]

NextStore ==
    \/ ProviderEvent
    \/ Deliver
    \/ Subscribe
    \/ Unsubscribe
    \/ Dispose

\* The observer alone: authStateObserver constructed, no call in progress.
InitObserver ==
    /\ call = NoCall
    /\ InitStore
    /\ NoBrowser

SpecStore == InitObserver /\ [][NextStore]_vars

\* The store with holders that keep the objects they were handed and write
\* to them.
NextStoreMutation ==
    \/ NextStore
    \/ ReadSnapshot
    \/ MutateTop
    \/ MutateNested

SpecStoreMutation == InitObserver /\ [][NextStoreMutation]_vars

(***************************************************************************)
(* AuthService operations over every provider response.                    *)
(***************************************************************************)
CallRecord(op, resp, repo, svc) == [op |-> op, resp |-> resp, repo |-> repo, svc |-> svc]

SignIn ==
    /\ call = NoCall
    /\ UNCHANGED <<storeVars, pageVars, formVars>>
    /\ \E resp \in SignInResponses :
        call' = CallRecord("signIn", resp, RepoSignIn(resp), ServiceSignIn(RepoSignIn(resp)))

SignUp ==
    /\ call = NoCall
    /\ UNCHANGED <<storeVars, pageVars, formVars>>
    /\ \E resp \in SignUpResponses :
        call' = CallRecord("signUp", resp, RepoSignUp(resp), ServiceSignUp(RepoSignUp(resp)))

SignOut ==
    /\ call = NoCall
    /\ UNCHANGED <<storeVars, pageVars, formVars>>
    /\ \E resp \in ErrorOnlyResponses :
        call' = CallRecord("signOut", resp, RepoSignOut(resp), ServiceSignOut(RepoSignOut(resp)))

RequestPasswordReset ==
    /\ call = NoCall
    /\ UNCHANGED <<storeVars, pageVars, formVars>>
    /\ \E resp \in ErrorOnlyResponses :
        call' = CallRecord("requestPasswordReset", resp, RepoRequestPasswordReset(resp),
                           ServiceRequestPasswordReset(RepoRequestPasswordReset(resp)))
                @@ [logged |-> RequestPasswordResetLogged(resp)]

UpdatePassword ==
    /\ call = NoCall
    /\ UNCHANGED <<storeVars, pageVars, formVars>>
    /\ \E resp \in ErrorOnlyResponses :
        call' = CallRecord("updatePassword", resp, RepoUpdatePassword(resp),
                           ServiceUpdatePassword(RepoUpdatePassword(resp)))

GetCurrentUser ==
    /\ call = NoCall
    /\ UNCHANGED <<storeVars, pageVars, formVars>>
    /\ \E resp \in GetUserResponses :
        call' = CallRecord("getCurrentUser", resp, RepoGetCurrentUser(resp),
                           ServiceGetCurrentUser(RepoGetCurrentUser(resp)))

GetSession ==
    /\ call = NoCall
    /\ UNCHANGED <<storeVars, pageVars, formVars>>
    /\ \E resp \in GetSessionResponses :
        call' = CallRecord("getSession", resp, RepoGetSession(resp),
                           ServiceGetSession(RepoGetSession(resp)))

\* The caller consumes the outcome; the service keeps no state between calls.
Settle ==
    /\ call # NoCall
    /\ call' = NoCall
    /\ UNCHANGED <<storeVars, pageVars, formVars>>

InitService ==
    /\ call = NoCall
    /\ InitStore
    /\ NoBrowser

NextService ==
    \/ SignIn
    \/ SignUp
    \/ SignOut
    \/ RequestPasswordReset
    \/ UpdatePassword
    \/ GetCurrentUser
    \/ GetSession
    \/ Settle

SpecService == InitService /\ [][NextService]_vars

(***************************************************************************)
(* C1. When the repository's signIn throws an error e carrying a code,     *)
(* AuthService.signIn throws an error with message "Sign in failed: " +    *)
(* e.message and code e.code; for an uncoded e the code is undefined.      *)
(***************************************************************************)
C1_SignInPreservesCode ==
    (call.op = "signIn" /\ call.repo.tag = "rejected" /\ call.repo.error.kind = "Error") =>
        /\ call.svc.tag = "rejected"
        /\ call.svc.error.message = P_SignInFailed \o call.repo.error.message
        /\ call.svc.error.code = call.repo.error.code

\* Reached: a coded repository error wrapped by signIn.
C1_Reached ==
    /\ call.op = "signIn"
    /\ call.repo.tag = "rejected"
    /\ call.repo.error.kind = "Error"
    /\ call.repo.error.code = S_email_not_confirmed

(***************************************************************************)
(* C6. Repository signUp throws an error with code user_already_exists in  *)
(* both duplicate cases: the provider returns an error whose code is       *)
(* user_already_exists or email_exists or whose message contains, case-    *)
(* insensitively, "already exists", "already registered" or "already been  *)
(* registered"; or it returns no error and a user whose identities list is *)
(* present and empty.                                                      *)
(***************************************************************************)
C6_ExplicitDuplicate(resp) ==
    /\ ~resp.threw
    /\ ~IsNull(resp.error)
    /\ \/ Val(resp.error).code \in {S_user_already_exists, S_email_exists}
       \/ \E pat \in {S_already_exists, S_already_registered, S_already_been_registered} :
            Includes(ToLowerCase(Val(resp.error).message), pat)

C6_ObfuscatedDuplicate(resp) ==
    /\ ~resp.threw
    /\ IsNull(resp.error)
    /\ ~IsNull(resp.user)
    /\ Val(resp.user).identities = <<>>

C6_DuplicateNormalized ==
    (call.op = "signUp" /\ (C6_ExplicitDuplicate(call.resp) \/ C6_ObfuscatedDuplicate(call.resp))) =>
        /\ call.repo.tag = "rejected"
        /\ call.repo.error.kind = "Error"
        /\ call.repo.error.code = S_user_already_exists

\* Reached: a duplicate reported only by the message text, with no code.
C6_Witness ==
    /\ call.op = "signUp"
    /\ C6_ExplicitDuplicate(call.resp)
    /\ Val(call.resp.error).code = Undefined
    /\ Val(call.resp.error).message = M_HasAlreadyBeenRegistered
    /\ call.repo.tag = "rejected"

(***************************************************************************)
(* C7. For every successful provider response to signUp, also one whose    *)
(* payload holds a session, the value repository signUp returns, and       *)
(* AuthService.signUp passes through, has the user and no session field.   *)
(***************************************************************************)
C7_SignUpReturnsNoSession ==
    (call.op = "signUp" /\ call.repo.tag = "resolved") =>
        /\ DOMAIN call.repo.value = {"user"}
        /\ call.svc.tag = "resolved"
        /\ call.svc.value = call.repo.value
        /\ DOMAIN call.svc.value = {"user"}

\* Reached: signUp succeeded on a payload that held a session.
C7_Witness ==
    /\ call.op = "signUp"
    /\ call.repo.tag = "resolved"
    /\ ~IsNull(call.resp.session)

(***************************************************************************)
(* C8. AuthService.requestPasswordReset resolves for every outcome of the  *)
(* repository's requestPasswordReset: the caller observes the same outcome *)
(* whether the repository resolved or rejected.                            *)
(***************************************************************************)
C8_ResetNeverRejects ==
    call.op = "requestPasswordReset" => call.svc = Resolved(Void)

\* Reached: the repository rejected with a value that is not an Error.
C8_Witness ==
    /\ call.op = "requestPasswordReset"
    /\ call.repo.tag = "rejected"
    /\ call.repo.error.kind = "NonError"

(***************************************************************************)
(* Pages.  The browser's Supabase client (supabaseClient) persists its     *)
(* session in localStorage; the server's client (createClient) reads the   *)
(* request's cookies.  Server components render one request at a time.     *)
(***************************************************************************)
Routes == {"/", "/login", "/signup"}

\* The cookie jar a browser arrives with: no auth cookie, an auth cookie the
\* server client cannot read, or an auth cookie holding a session.
BadCookie == [kind |-> "invalid"]
SessionCookie(s) == [kind |-> "session", session |-> s]
CookieJars == {NoCookie, BadCookie} \cup {SessionCookie(s) : s \in ProviderSessions}

\* A variant that answers with the session the browser client has stored.
ServerAuthGetSession_FromLocalStorage(jar) ==
    [error |-> Null, session |-> localStorage]

\* createClient().auth.getSession(): {data: {session}, error} from cookies.
ServerAuthGetSession(jar) ==
    IF jar.kind = "invalid"
    THEN [error |-> Some([message |-> M_AuthProviderError, code |-> Undefined]),
          session |-> Null]
    ELSE IF jar.kind = "none"
    THEN [error |-> Null, session |-> Null]
    ELSE [error |-> Null, session |-> Some(jar.session)]

\* lib/auth/get-session getSession(): AuthSession | null.
ServerGetSession(resp) ==
    IF ~IsNull(resp.error) THEN Null
    ELSE IF IsNull(resp.session) THEN Null
    ELSE IF ~TruthyAtom(Val(resp.session).user.email) THEN Null
    ELSE Some([accessToken |-> Val(resp.session).access_token,
               refreshToken |-> Val(resp.session).refresh_token,
               expiresAt |-> ExpiresAtOf(Val(resp.session)),
               user |-> [id |-> Val(resp.session).user.id,
                         email |-> Val(resp.session).user.email,
                         createdAt |-> DateOf(Val(resp.session).user.created_at),
                         updatedAt |-> DateOf(Val(resp.session).user.updated_at)]])

\* DashboardPage: reads the session and renders the dashboard with
\* session?.user?.email || "User"; it has no redirect.
DashboardPage(session) ==
    [route |-> "/", view |-> "dashboard", session |-> session,
     welcome |-> IF IsNull(session) THEN "User" ELSE Val(session).user.email]

\* LoginPage and SignUpPage: render their form; they read no session.
LoginPage == [route |-> "/login", view |-> "sign-in-form"]
SignUpPage == [route |-> "/signup", view |-> "sign-up-form"]

\* The server's answer to a request for a route carrying a cookie jar.
Render(r, jar) ==
    IF r = "/" THEN DashboardPage(ServerGetSession(ServerAuthGetSession(jar)))
    ELSE IF r = "/login" THEN LoginPage
    ELSE SignUpPage

\* signInWithPassword stored a session in the browser and announced it.
ProviderSignedIn(resp) == ~resp.threw /\ IsNull(resp.error) /\ ~IsNull(resp.session)

InitPages ==
    /\ InitStore
    /\ call = NoCall
    /\ localStorage = Null
    /\ cookies \in CookieJars
    /\ rendered = NotRequested
    /\ ui = NoSubmission
    /\ hooks = [c \in Instances |-> NoHook]

\* The observer's first callback: the session the browser client restored.
InitialSession ==
    /\ state.status = "loading"
    /\ events < MaxEvents
    /\ events' = events + 1
    /\ HandleAuthStateChange(localStorage)
    /\ lastOp' = [op |-> "initialSession"]
    /\ UNCHANGED <<listeners, unsubscribe, channel, delivered, seen, held, handles, closures,
                   subscribes, svcVars, formVars, pageVars>>

\* The browser requests a route and the server renders it.
Request ==
    /\ \E r \in Routes : rendered' = Render(r, cookies)
    /\ lastOp' = [op |-> "request"]
    /\ UNCHANGED <<state, heap, listeners, unsubscribe, channel, cycle, version, delivered,
                   seen, held, handles, closures, events, subscribes, svcVars, formVars, localStorage, cookies>>

\* SignInForm.onSubmit: signIn through useAuth; on success the browser client
\* has persisted the session and announced it to the observer, and
\* router.replace("/") requests the dashboard.
OnSubmit ==
    /\ rendered.view = "sign-in-form"
    /\ events < MaxEvents
    /\ events' = events + 1
    /\ \E resp \in SignInResponses :
        LET out == ServiceSignIn(RepoSignIn(resp))
        IN  /\ IF ProviderSignedIn(resp)
               THEN /\ localStorage' = resp.session
                    /\ HandleAuthStateChange(resp.session)
               ELSE UNCHANGED <<localStorage, state, heap, cycle, version>>
            /\ rendered' = IF (out.tag = "resolved") THEN Render("/", cookies) ELSE rendered
            /\ lastOp' = [op |-> "onSubmit", ok |-> (out.tag = "resolved")]
    /\ UNCHANGED <<listeners, unsubscribe, channel, delivered, seen, held, handles, closures,
                   subscribes, svcVars, formVars, cookies>>

\* HomePage.handleSignOut: signOut through useAuth; on success the browser
\* client has dropped its session and router.replace("/login") follows.
HandleSignOut ==
    /\ rendered.route = "/"
    /\ state.status = "authenticated"
    /\ events < MaxEvents
    /\ events' = events + 1
    /\ \E resp \in ErrorOnlyResponses :
        LET out == ServiceSignOut(RepoSignOut(resp))
        IN  /\ IF (out.tag = "resolved")
               THEN /\ localStorage' = Null
                    /\ HandleAuthStateChange(Null)
                    /\ rendered' = Render("/login", cookies)
               ELSE UNCHANGED <<localStorage, state, heap, cycle, version, rendered>>
            /\ lastOp' = [op |-> "handleSignOut", ok |-> (out.tag = "resolved")]
    /\ UNCHANGED <<listeners, unsubscribe, channel, delivered, seen, held, handles, closures,
                   subscribes, svcVars, formVars, cookies>>

\* The dashboard's form action signOut: the server client signs out, which
\* clears the auth cookies, and redirect("/login") follows.
SignOutAction ==
    /\ rendered.view = "dashboard"
    /\ cookies' = NoCookie
    /\ rendered' = Render("/login", NoCookie)
    /\ lastOp' = [op |-> "signOutAction"]
    /\ UNCHANGED <<state, heap, listeners, unsubscribe, channel, cycle, version, delivered,
                   seen, held, handles, closures, events, subscribes, svcVars, formVars, localStorage>>

NextPages ==
    \/ InitialSession
    \/ Request
    \/ OnSubmit
    \/ HandleSignOut
    \/ SignOutAction

SpecPages == InitPages /\ [][NextPages]_vars

(***************************************************************************)
(* C2. After a successful client-side sign-in and navigation to "/", the   *)
(* server's session read for that browser yields the session: the client   *)
(* store is never authenticated while the server's cookie-based getSession *)
(* returns null.                                                           *)
(***************************************************************************)
C2_ServerSeesClientSession ==
    (state.status = "authenticated" /\ rendered.route = "/") =>
        ~IsNull(rendered.session)

(***************************************************************************)
(* C3. A server-rendered request for the dashboard "/" whose getSession    *)
(* returned null is answered with a redirect to /login, whatever the       *)
(* client store's status; the dashboard is never rendered for it.          *)
(***************************************************************************)
C3_NullSessionRedirectsToLogin ==
    (rendered.route = "/" /\ IsNull(rendered.session)) =>
        rendered.view = "redirect:/login"

(***************************************************************************)
(* C4. A server-rendered request for /login or /signup from a browser for  *)
(* which the server's getSession returns a session is answered with a      *)
(* redirect to "/"; the form is never rendered for it.                     *)
(***************************************************************************)
C4_EntryPointsRedirectHome ==
    (/\ rendered.route \in {"/login", "/signup"}
     /\ ~IsNull(ServerGetSession(ServerAuthGetSession(cookies)))) =>
        rendered.view = "redirect:/"

(***************************************************************************)
(* C5. Every value delivered to a listener and every value returned by     *)
(* getSnapshot, after any sequence of provider events, subscribe,          *)
(* unsubscribe and dispose calls, has status "authenticated" exactly when  *)
(* user and session are both non-null, and has both null when its status   *)
(* is "unauthenticated".                                                   *)
(***************************************************************************)
C5_WellFormed(v) ==
    /\ v.status = "authenticated" <=> (~IsNull(v.user) /\ ~IsNull(v.session))
    /\ v.status = "unauthenticated" => (IsNull(v.user) /\ IsNull(v.session))

C5_StateInvariant ==
    /\ C5_WellFormed(Deep(GetSnapshot(state), heap))
    /\ \A l \in Listeners : seen[l].status # "none" => C5_WellFormed(seen[l])

\* Reached: after dispose, one listener last saw an authenticated value and
\* another an unauthenticated one.
C5_Witness ==
    /\ ~channel
    /\ \E l1, l2 \in Listeners :
        /\ seen[l1].status = "authenticated"
        /\ seen[l2].status = "unauthenticated"

(***************************************************************************)
(* C9. subscribe(listener) invokes that listener exactly once before it    *)
(* returns, with a value equal to the snapshot of the state at that        *)
(* moment, and no provider event is processed in between.                  *)
(***************************************************************************)
C9_ReplayStep ==
    LET l == IF lastOp'.op = "subscribe" THEN lastOp'.l ELSE lastOp'.sub
        own == IF lastOp'.op = "deliver" /\ lastOp'.l = l THEN 1 ELSE 0
    IN  /\ Len(delivered'[l]) = Len(delivered[l]) + 1 + own
        /\ delivered'[l][Len(delivered'[l])] = version'
        /\ seen'[l] = Deep(GetSnapshot(state'), heap')
        /\ state' = state
        /\ version' = version
        /\ events' = events

C9_ReplayOnSubscribe ==
    [][subscribes' = subscribes + 1 => C9_ReplayStep]_vars

\* Reached: a subscribe call replayed an authenticated state to a listener
\* that had been invoked before.
C9_Witness ==
    /\ lastOp.op = "subscribe"
    /\ state.status = "authenticated"
    /\ Len(delivered[lastOp.l]) >= 2
    /\ seen[lastOp.l].status = "authenticated"

(***************************************************************************)
(* C10. getSnapshot and notifications hand out copies: no write a holder   *)
(* performs on an AuthState it was handed, or on the user and session      *)
(* objects it refers to, changes what getSnapshot returns afterwards.      *)
(***************************************************************************)
C10_SnapshotsIsolated ==
    [][lastOp'.op \in {"mutateTop", "mutateNested"} =>
        Deep(GetSnapshot(state'), heap') = Deep(GetSnapshot(state), heap)]_vars

(***************************************************************************)
(* C14. For AuthService.updatePassword, signOut, getCurrentUser and        *)
(* getSession: when the repository rejects with an error carrying a code,  *)
(* the service rejects with a new error whose message is the operation's   *)
(* prefix followed by the original message and whose code is that code.    *)
(***************************************************************************)
C14_PrefixOf(op) ==
    CASE op = "updatePassword" -> P_FailedToUpdatePassword
      [] op = "signOut" -> P_SignOutFailed
      [] op = "getCurrentUser" -> P_FailedToRetrieveCurrentUser
      [] op = "getSession" -> P_FailedToRetrieveSession

C14_WrappedKeepsCode ==
    (/\ call.op \in {"updatePassword", "signOut", "getCurrentUser", "getSession"}
     /\ call.repo.tag = "rejected"
     /\ call.repo.error.kind = "Error"
     /\ Truthy(call.repo.error.code)) =>
        /\ call.svc.tag = "rejected"
        /\ call.svc.error.message = C14_PrefixOf(call.op) \o call.repo.error.message
        /\ call.svc.error.code = call.repo.error.code

(***************************************************************************)
(* C15. AuthService.signUp rethrows the repository's error itself, message *)
(* and code, when it is an Error with a non-empty message; rejects with    *)
(* "Sign up failed: Unknown error" when the repository rejected with a     *)
(* value that is not an Error; and returns the repository's result         *)
(* unchanged on success.                                                   *)
(***************************************************************************)
C15_SignUpPassesThrough ==
    call.op = "signUp" =>
        /\ call.repo.tag = "resolved" => call.svc = call.repo
        /\ (/\ call.repo.tag = "rejected"
            /\ call.repo.error.kind = "Error"
            /\ call.repo.error.message # EmptyStr) => call.svc = call.repo
        /\ (call.repo.tag = "rejected" /\ call.repo.error.kind # "Error") =>
                /\ call.svc.tag = "rejected"
                /\ call.svc.error.kind = "Error"
                /\ call.svc.error.message = P_SignUpFailed \o M_UnknownError

\* Reached: signUp rethrew a duplicate-email error with its code.
C15_Witness ==
    /\ call.op = "signUp"
    /\ call.repo.tag = "rejected"
    /\ call.repo.error.code = S_user_already_exists
    /\ call.svc.tag = "rejected"
    /\ call.svc.error.code = S_user_already_exists

(***************************************************************************)
(* C16. Every error repository signIn or signUp throws for a provider      *)
(* error has a code that is user_already_exists, email_not_confirmed or    *)
(* invalid_login_credentials, or has no code.                              *)
(***************************************************************************)
C16_KnownCodes ==
    {S_user_already_exists, S_email_not_confirmed, S_invalid_login_credentials, Undefined}

C16_ProviderErrorCall ==
    /\ call.op \in {"signIn", "signUp"}
    /\ ~call.resp.threw
    /\ ~IsNull(call.resp.error)

C17_Expected(error) ==
    IF Truthy(error.code) THEN error.code
    ELSE IF \E pat \in {S_email_not_confirmed, S_email_not_confirmed_sp} :
                Includes(ToLowerCase(error.message), pat)
    THEN S_email_not_confirmed
    ELSE IF \E pat \in {S_invalid_login, S_invalid_credentials} :
                Includes(ToLowerCase(error.message), pat)
    THEN S_invalid_login_credentials
    ELSE Undefined

C17_SignInCodeAssignment ==
    (call.op = "signIn" /\ ~call.resp.threw /\ ~IsNull(call.resp.error)) =>
        /\ call.repo.tag = "rejected"
        /\ call.repo.error.message = Val(call.resp.error).message
        /\ call.repo.error.code = C17_Expected(Val(call.resp.error))

\* Reached: the provider's code was kept although the message matched a
\* pattern of another code.
C17_Witness ==
    /\ call.op = "signIn"
    /\ ~call.resp.threw
    /\ ~IsNull(call.resp.error)
    /\ Val(call.resp.error).code = S_over_request_rate_limit
    /\ Val(call.resp.error).message = M_EmailNotConfirmed
    /\ call.repo.error.code = S_over_request_rate_limit

(***************************************************************************)
(* C18. For every provider signUp response with no error and a user whose  *)
(* identities list is non-empty or absent, repository signUp resolves with *)
(* {user} and throws nothing.                                              *)
(***************************************************************************)
C18_FirstTimeResponse ==
    /\ call.op = "signUp"
    /\ ~call.resp.threw
    /\ IsNull(call.resp.error)
    /\ ~IsNull(call.resp.user)
    /\ Val(call.resp.user).identities # <<>>

C18_FirstTimeResolves ==
    C18_FirstTimeResponse =>
        /\ call.repo.tag = "resolved"
        /\ DOMAIN call.repo.value = {"user"}

\* C18 as the code has it: the same, for a user that has an email; a user
\* without one makes the mapping throw "User email is missing".
C18_FirstTimeWithEmailResolves ==
    C18_FirstTimeResponse =>
        IF UserEmailMissing(Val(call.resp.user))
        THEN /\ call.repo.tag = "rejected"
             /\ call.repo.error.message = M_UserEmailMissing
        ELSE /\ call.repo.tag = "resolved"
             /\ DOMAIN call.repo.value = {"user"}
             /\ call.repo.value.user.email = Val(call.resp.user).email

\* Reached: a user with an email and a null identities field was created.
C18_Witness ==
    /\ C18_FirstTimeResponse
    /\ Val(call.resp.user).identities = NullIds
    /\ ~UserEmailMissing(Val(call.resp.user))
    /\ call.repo.tag = "resolved"

(***************************************************************************)
(* C11. Each listener observes the states in the order the provider events *)
(* arrived, once per event, none skipped; within one event the listeners   *)
(* are invoked in the order their subscriptions were registered.           *)
(***************************************************************************)
C11_LastSeen(l) ==
    IF delivered[l] = <<>> THEN 0 - 1 ELSE delivered[l][Len(delivered[l])]

C11_InOrderNoneSkipped ==
    /\ \A l \in Listeners : \A i, j \in 1..Len(delivered[l]) :
            i < j => delivered[l][i] <= delivered[l][j]
    /\ cycle.active =>
            \A i \in 1..cycle.idx : C11_LastSeen(listeners[i]) = version
    /\ ~cycle.active =>
            \A i \in 1..Len(listeners) : C11_LastSeen(listeners[i]) = version

(***************************************************************************)
(* C12. The function subscribe returns is idempotent: a second or later    *)
(* call of it changes nothing, and in particular does not end a            *)
(* subscription made later with the same listener function.                *)
(***************************************************************************)
C12_UnsubscribeIdempotent ==
    [][(lastOp'.op = "unsubscribe" /\ lastOp'.again) => listeners' = listeners]_vars

(***************************************************************************)
(* C13. dispose() is terminal: it detaches from the provider's change      *)
(* channel and clears all listeners, and afterwards no provider event is   *)
(* handled, no listener is invoked for one, and the state never changes.   *)
(***************************************************************************)
C13_DisposeIsTerminal ==
    [][/\ (unsubscribe /\ ~unsubscribe') =>
            /\ listeners' = <<>>
            /\ ~channel'
            /\ ~cycle'.active
       /\ ~unsubscribe =>
            /\ ~unsubscribe'
            /\ ~channel'
            /\ state' = state
            /\ heap' = heap
            /\ version' = version
            /\ events' = events
            /\ lastOp'.op \notin {"event", "deliver"}]_vars

\* Reached: after a dispose issued from inside a notification, with provider
\* events still to come, a listener subscribed again and got the replay.
C13_Witness ==
    /\ ~unsubscribe
    /\ events < MaxEvents
    /\ state.status = "authenticated"
    /\ listeners # <<>>
    /\ lastOp.op = "subscribe"

(***************************************************************************)
(* C19. The status is "loading" only before the first provider callback:   *)
(* once the observer's callback has run for any provider event, no         *)
(* snapshot has status "loading".                                          *)
(***************************************************************************)
C19_LoadingOnlyBeforeFirstEvent ==
    events > 0 => Deep(GetSnapshot(state), heap).status # "loading"

(***************************************************************************)
(* C20. When a provider event carries a session whose user has no email,   *)
(* the mapping throws: the state is left exactly as it was, no listener is *)
(* notified, and no user object with a defaulted email exists.             *)
(***************************************************************************)
C20_MappingFailureLeavesState ==
    [][(/\ events' = events + 1
        /\ lastOp'.op = "event"
        /\ ~TruthyAtom(lastOp'.email)) =>
            /\ lastOp'.threw
            /\ state' = state
            /\ heap' = heap
            /\ version' = version
            /\ cycle' = cycle
            /\ delivered' = delivered
            /\ seen' = seen
            /\ \A i \in 1..Len(heap') :
                    "email" \in DOMAIN heap'[i] => TruthyAtom(heap'[i].email)]_vars

\* Reached: an authenticated store with a subscribed listener took an event
\* whose user had no email.
C20_Witness ==
    /\ lastOp.op = "event"
    /\ lastOp.threw
    /\ state.status = "authenticated"
    /\ listeners # <<>>

(***************************************************************************)
(* C21. A provider user without an email ends every mapping operation with *)
(* an error.  Here for the server-side getSession: a request for the       *)
(* dashboard whose cookie session has a user without an email does not     *)
(* produce a session value (null included) and a rendered dashboard.       *)
(***************************************************************************)
C21_MissingEmailIsError ==
    (/\ rendered.route = "/"
     /\ cookies.kind = "session"
     /\ UserEmailMissing(cookies.session.user)) =>
        /\ "session" \notin DOMAIN rendered
        /\ rendered.view # "dashboard"

(***************************************************************************)
(* Forms.  SignInForm, SignUpForm, ResetPasswordForm, ForgotPasswordForm   *)
(* and HomePage call the operations of useAuth(), which delegate to        *)
(* authService, and answer with toasts (sonner) and router.replace.  A     *)
(* handler runs up to its next await in one step; ui.trace lists what it   *)
(* has done, in order.  One submission of one mounted form is followed.    *)
(***************************************************************************)
\* Toast texts; "..." stands for the one character of the ellipsis.
T_UserExists == <<"U", "s", "e", "r", " ", "e", "x", "i", "s", "t", "s",
    ",", " ", "s", "i", "g", "n", "i", "n", "g", " ", "y", "o", "u", " ",
    "i", "n", "...">>
T_SignedIn == <<"S", "i", "g", "n", "e", "d", " ", "i", "n", " ", "s", "u",
    "c", "c", "e", "s", "s", "f", "u", "l", "l", "y">>
T_IncorrectPassword == <<"I", "n", "c", "o", "r", "r", "e", "c", "t", " ",
    "p", "a", "s", "s", "w", "o", "r", "d", ".", " ", "P", "l", "e", "a",
    "s", "e", " ", "t", "r", "y", " ", "a", "g", "a", "i", "n", ".">>
T_ConfirmEmail == <<"P", "l", "e", "a", "s", "e", " ", "c", "o", "n", "f",
    "i", "r", "m", " ", "y", "o", "u", "r", " ", "e", "m", "a", "i", "l",
    " ", "b", "e", "f", "o", "r", "e", " ", "s", "i", "g", "n", "i", "n",
    "g", " ", "i", "n", ".">>
T_UnableToSignIn == <<"U", "n", "a", "b", "l", "e", " ", "t", "o", " ",
    "s", "i", "g", "n", " ", "i", "n", ".", " ", "P", "l", "e", "a", "s",
    "e", " ", "t", "r", "y", " ", "a", "g", "a", "i", "n", ".">>
T_UnableToCreateAccount == <<"U", "n", "a", "b", "l", "e", " ", "t", "o",
    " ", "c", "r", "e", "a", "t", "e", " ", "a", "c", "c", "o", "u", "n",
    "t", ".", " ", "P", "l", "e", "a", "s", "e", " ", "t", "r", "y", " ",
    "a", "g", "a", "i", "n", ".">>
T_AccountCreated == <<"A", "c", "c", "o", "u", "n", "t", " ", "c", "r",
    "e", "a", "t", "e", "d", ".", " ", "P", "l", "e", "a", "s", "e", " ",
    "c", "h", "e", "c", "k", " ", "y", "o", "u", "r", " ", "e", "m", "a",
    "i", "l", " ", "t", "o", " ", "c", "o", "n", "f", "i", "r", "m", " ",
    "y", "o", "u", "r", " ", "r", "e", "g", "i", "s", "t", "r", "a", "t",
    "i", "o", "n", ".">>
T_SignInFailed == <<"S", "i", "g", "n", " ", "i", "n", " ", "f", "a", "i",
    "l", "e", "d">>
T_PasswordUpdated == <<"P", "a", "s", "s", "w", "o", "r", "d", " ", "u",
    "p", "d", "a", "t", "e", "d", ".", " ", "S", "i", "g", "n", " ", "i",
    "n", " ", "t", "o", " ", "c", "o", "n", "t", "i", "n", "u", "e">>
T_PasswordUpdateFailed == <<"P", "a", "s", "s", "w", "o", "r", "d", " ",
    "u", "p", "d", "a", "t", "e", " ", "f", "a", "i", "l", "e", "d">>
T_ResetLinkSent == <<"R", "e", "s", "e", "t", " ", "l", "i", "n", "k", " ",
    "s", "e", "n", "t", " ", "i", "f", " ", "a", "c", "c", "o", "u", "n",
    "t", " ", "e", "x", "i", "s", "t", "s">>
T_SignedOut == <<"S", "i", "g", "n", "e", "d", " ", "o", "u", "t">>
T_SignOutFailed == <<"S", "i", "g", "n", " ", "o", "u", "t", " ", "f", "a",
    "i", "l", "e", "d">>

\* What a handler can tell of a settled promise: resolved or rejected, and
\* of the rejection `err instanceof Error`, err.code and err.message.
NoOutcome == [tag |-> "none", isError |-> FALSE, code |-> Undefined, message |-> Undefined]
Observed(out) ==
    IF out.tag = "resolved"
    THEN [NoOutcome EXCEPT !.tag = "resolved"]
    ELSE [tag |-> "rejected", isError |-> (out.error.kind = "Error"),
          code |-> out.error.code, message |-> out.error.message]

\* The entries of ui.trace.
NoEvent ==
    [e |-> "none", op |-> "none", out |-> NoOutcome, kind |-> "none", text |-> EmptyStr,
     route |-> "none", flag |-> FALSE]
SetIsLoading(b) == [NoEvent EXCEPT !.e = "setIsLoading", !.flag = b]
Calls(op) == [NoEvent EXCEPT !.e = "call", !.op = op]
Settled(op, out) == [NoEvent EXCEPT !.e = "settled", !.op = op, !.out = Observed(out)]
Toast(kind, text) == [NoEvent EXCEPT !.e = "toast", !.kind = kind, !.text = text]
RouterReplace(route) == [NoEvent EXCEPT !.e = "replace", !.route = route]
SetTimeout == [NoEvent EXCEPT !.e = "setTimeout"]

\* err instanceof Error ? err.message : fallback
MessageOr(out, fallback) == IF out.error.kind = "Error" THEN out.error.message ELSE fallback

\* The rejections the component tests stub useAuth's operations with:
\* Object.assign(new Error(message), {code}), and a value that is no Error.
StubbedRejections ==
    {Rejected(JsError(m, c)) :
        m \in {M_UserAlreadyRegistered, M_EmailNotConfirmed, M_InvalidLoginCredentials},
        c \in {S_user_already_exists, S_email_not_confirmed, S_invalid_login_credentials}}
    \cup {Rejected(NonError)}

\* The outcomes of useAuth's operations: those of authService over every
\* provider response, and the stubbed ones.
SignInOutcomes ==
    {ServiceSignIn(RepoSignIn(resp)) : resp \in SignInResponses} \cup StubbedRejections
SignUpOutcomes ==
    {ServiceSignUp(RepoSignUp(resp)) : resp \in SignUpResponses} \cup StubbedRejections
UpdatePasswordOutcomes ==
    {ServiceUpdatePassword(RepoUpdatePassword(resp)) : resp \in ErrorOnlyResponses}
    \cup StubbedRejections
RequestPasswordResetOutcomes ==
    {ServiceRequestPasswordReset(RepoRequestPasswordReset(resp)) : resp \in ErrorOnlyResponses}
    \cup StubbedRejections
SignOutOutcomes ==
    {ServiceSignOut(RepoSignOut(resp)) : resp \in ErrorOnlyResponses} \cup StubbedRejections

\* A variant that navigates whatever the outcome.
SignInForm_afterSignIn_AlwaysHome(out) ==
    IF out.tag = "resolved"
    THEN <<Toast("success", T_SignedIn), RouterReplace("/"), SetIsLoading(FALSE)>>
    ELSE <<Toast("error", MessageOr(out, T_SignInFailed)), RouterReplace("/"),
           SetIsLoading(FALSE)>>

\* SignInForm.onSubmit after `await signIn(...)`.
SignInForm_afterSignIn(out) ==
    IF out.tag = "resolved"
    THEN <<Toast("success", T_SignedIn), RouterReplace("/"), SetIsLoading(FALSE)>>
    ELSE <<Toast("error", MessageOr(out, T_SignInFailed)), SetIsLoading(FALSE)>>

\* A variant whose non-duplicate error branch leaves the loading flag set.
SignUpForm_afterSignUp_KeepsLoading(out) ==
    IF out.tag = "resolved"
    THEN <<Toast("success", T_AccountCreated), SetIsLoading(FALSE)>>
    ELSE IF out.error.code = S_user_already_exists
    THEN <<Toast("info", T_UserExists), Calls("signIn")>>
    ELSE <<Toast("error", T_UnableToCreateAccount)>>

\* A variant that attempts the sign-in after any rejected sign-up.
SignUpForm_afterSignUp_AnyError(out) ==
    IF out.tag = "resolved"
    THEN <<Toast("success", T_AccountCreated), SetIsLoading(FALSE)>>
    ELSE <<Toast("info", T_UserExists), Calls("signIn")>>

\* SignUpForm.onSubmit after `await signUp(...)`: the duplicate branch goes
\* on to `await signIn(...)`.
SignUpForm_afterSignUp(out) ==
    IF out.tag = "resolved"
    THEN <<Toast("success", T_AccountCreated), SetIsLoading(FALSE)>>
    ELSE IF out.error.code = S_user_already_exists
    THEN <<Toast("info", T_UserExists), Calls("signIn")>>
    ELSE <<Toast("error", T_UnableToCreateAccount), SetIsLoading(FALSE)>>

\* A variant whose fallback branch of the automatic sign-in stays on the page.
SignUpForm_afterSignIn_StaysOnOther(out) ==
    IF out.tag = "resolved"
    THEN <<Toast("success", T_SignedIn), RouterReplace("/"), SetIsLoading(FALSE)>>
    ELSE IF out.error.code = S_invalid_login_credentials
    THEN <<Toast("error", T_IncorrectPassword), RouterReplace("/login"), SetIsLoading(FALSE)>>
    ELSE IF out.error.code = S_email_not_confirmed
    THEN <<Toast("error", T_ConfirmEmail), RouterReplace("/login"), SetIsLoading(FALSE)>>
    ELSE <<Toast("error", T_UnableToSignIn), SetIsLoading(FALSE)>>

\* SignUpForm.onSubmit after the automatic `await signIn(...)`.
SignUpForm_afterSignIn(out) ==
    IF out.tag = "resolved"
    THEN <<Toast("success", T_SignedIn), RouterReplace("/"), SetIsLoading(FALSE)>>
    ELSE IF out.error.code = S_invalid_login_credentials
    THEN <<Toast("error", T_IncorrectPassword), RouterReplace("/login"), SetIsLoading(FALSE)>>
    ELSE IF out.error.code = S_email_not_confirmed
    THEN <<Toast("error", T_ConfirmEmail), RouterReplace("/login"), SetIsLoading(FALSE)>>
    ELSE <<Toast("error", T_UnableToSignIn), RouterReplace("/login"), SetIsLoading(FALSE)>>

\* A variant that redirects at once and after a rejection too.
ResetPasswordForm_afterUpdatePassword_Eager(out) ==
    IF out.tag = "resolved"
    THEN <<Toast("success", T_PasswordUpdated), RouterReplace("/login"), SetIsLoading(FALSE)>>
    ELSE <<Toast("error", MessageOr(out, T_PasswordUpdateFailed)), SetTimeout,
           SetIsLoading(FALSE)>>

\* ResetPasswordForm.onSubmit after `await updatePassword(...)`.
ResetPasswordForm_afterUpdatePassword(out) ==
    IF out.tag = "resolved"
    THEN <<Toast("success", T_PasswordUpdated), SetTimeout, SetIsLoading(FALSE)>>
    ELSE <<Toast("error", MessageOr(out, T_PasswordUpdateFailed)), SetIsLoading(FALSE)>>

\* A variant that reports the rejection.
ForgotPasswordForm_afterRequest_Reports(out) ==
    IF out.tag = "resolved"
    THEN <<Toast("success", T_ResetLinkSent), SetIsLoading(FALSE)>>
    ELSE <<Toast("error", MessageOr(out, T_ResetLinkSent)), SetIsLoading(FALSE)>>

\* ForgotPasswordForm.onSubmit after `await requestPasswordReset(...)`.
ForgotPasswordForm_afterRequest(out) ==
    IF out.tag = "resolved"
    THEN <<Toast("success", T_ResetLinkSent), SetIsLoading(FALSE)>>
    ELSE <<Toast("success", T_ResetLinkSent), SetIsLoading(FALSE)>>

\* HomePage.handleSignOut after `await signOut()`.
HomePage_afterSignOut(out) ==
    IF out.tag = "resolved"
    THEN <<Toast("success", T_SignedOut), RouterReplace("/login")>>
    ELSE <<Toast("error", MessageOr(out, T_SignOutFailed))>>

\* The handler is at an await when its last entry is a call.
Awaits(trace) == IF trace # <<>> /\ trace[Len(trace)].e = "call" THEN trace[Len(trace)].op ELSE "none"
HasTimer(evs) == \E i \in 1..Len(evs) : evs[i].e = "setTimeout"

\* A handler that has run up to its first await.
Started(form, evs) == [form |-> form, pc |-> Awaits(evs), trace |-> evs, timer |-> FALSE]

\* The awaited operation op has settled with out and the handler has run on
\* to its next await or to its end.
Resumed(u, op, out, evs) ==
    [u EXCEPT !.trace = @ \o <<Settled(op, out)>> \o evs,
              !.pc = IF Awaits(evs) = "none" THEN "done" ELSE Awaits(evs),
              !.timer = HasTimer(evs)]

SignInForm_onSubmit ==
    /\ ui = NoSubmission
    /\ ui' = Started("SignInForm", <<SetIsLoading(TRUE), Calls("signIn")>>)
    /\ UNCHANGED <<svcVars, storeVars, pageVars, hooks>>

SignInForm_signInSettled ==
    /\ ui.form = "SignInForm"
    /\ ui.pc = "signIn"
    /\ \E out \in SignInOutcomes :
        ui' = Resumed(ui, "signIn", out, SignInForm_afterSignIn(out))
    /\ UNCHANGED <<svcVars, storeVars, pageVars, hooks>>

SignUpForm_onSubmit ==
    /\ ui = NoSubmission
    /\ ui' = Started("SignUpForm", <<SetIsLoading(TRUE), Calls("signUp")>>)
    /\ UNCHANGED <<svcVars, storeVars, pageVars, hooks>>

SignUpForm_signUpSettled ==
    /\ ui.form = "SignUpForm"
    /\ ui.pc = "signUp"
    /\ \E out \in SignUpOutcomes :
        ui' = Resumed(ui, "signUp", out, SignUpForm_afterSignUp(out))
    /\ UNCHANGED <<svcVars, storeVars, pageVars, hooks>>

SignUpForm_signInSettled ==
    /\ ui.form = "SignUpForm"
    /\ ui.pc = "signIn"
    /\ \E out \in SignInOutcomes :
        ui' = Resumed(ui, "signIn", out, SignUpForm_afterSignIn(out))
    /\ UNCHANGED <<svcVars, storeVars, pageVars, hooks>>

ResetPasswordForm_onSubmit ==
    /\ ui = NoSubmission
    /\ ui' = Started("ResetPasswordForm", <<SetIsLoading(TRUE), Calls("updatePassword")>>)
    /\ UNCHANGED <<svcVars, storeVars, pageVars, hooks>>

ResetPasswordForm_updatePasswordSettled ==
    /\ ui.form = "ResetPasswordForm"
    /\ ui.pc = "updatePassword"
    /\ \E out \in UpdatePasswordOutcomes :
        ui' = Resumed(ui, "updatePassword", out, ResetPasswordForm_afterUpdatePassword(out))
    /\ UNCHANGED <<svcVars, storeVars, pageVars, hooks>>

\* The 2000 ms timer of ResetPasswordForm fires.
ResetPasswordForm_timeout ==
    /\ ui.timer
    /\ ui' = [ui EXCEPT !.trace = @ \o <<RouterReplace("/login")>>, !.timer = FALSE]
    /\ UNCHANGED <<svcVars, storeVars, pageVars, hooks>>

ForgotPasswordForm_onSubmit ==
    /\ ui = NoSubmission
    /\ ui' = Started("ForgotPasswordForm",
                     <<SetIsLoading(TRUE), Calls("requestPasswordReset")>>)
    /\ UNCHANGED <<svcVars, storeVars, pageVars, hooks>>

ForgotPasswordForm_requestSettled ==
    /\ ui.form = "ForgotPasswordForm"
    /\ ui.pc = "requestPasswordReset"
    /\ \E out \in RequestPasswordResetOutcomes :
        ui' = Resumed(ui, "requestPasswordReset", out, ForgotPasswordForm_afterRequest(out))
    /\ UNCHANGED <<svcVars, storeVars, pageVars, hooks>>

HomePage_handleSignOut ==
    /\ ui = NoSubmission
    /\ ui' = Started("HomePage", <<Calls("signOut")>>)
    /\ UNCHANGED <<svcVars, storeVars, pageVars, hooks>>

HomePage_signOutSettled ==
    /\ ui.form = "HomePage"
    /\ ui.pc = "signOut"
    /\ \E out \in SignOutOutcomes :
        ui' = Resumed(ui, "signOut", out, HomePage_afterSignOut(out))
    /\ UNCHANGED <<svcVars, storeVars, pageVars, hooks>>

InitForms ==
    /\ call = NoCall
    /\ InitStore
    /\ NoBrowser

NextForms ==
    \/ SignInForm_onSubmit
    \/ SignInForm_signInSettled
    \/ SignUpForm_onSubmit
    \/ SignUpForm_signUpSettled
    \/ SignUpForm_signInSettled
    \/ ResetPasswordForm_onSubmit
    \/ ResetPasswordForm_updatePasswordSettled
    \/ ResetPasswordForm_timeout
    \/ ForgotPasswordForm_onSubmit
    \/ ForgotPasswordForm_requestSettled
    \/ HomePage_handleSignOut
    \/ HomePage_signOutSettled

SpecForms == InitForms /\ [][NextForms]_vars

\* Readings of a trace.
Select(trace, e) == SelectSeq(trace, LAMBDA x : x.e = e)
Toasts(trace) == Select(trace, "toast")
Navigations(trace) == Select(trace, "replace")
CallsOf(trace, op) == SelectSeq(trace, LAMBDA x : x.e = "call" /\ x.op = op)
IsLoading(trace) ==
    LET s == Select(trace, "setIsLoading") IN IF s = <<>> THEN FALSE ELSE s[Len(s)].flag
\* The observed outcome of the settled operation op, NoOutcome before.
OutcomeOf(trace, op) ==
    LET s == SelectSeq(trace, LAMBDA x : x.e = "settled" /\ x.op = op)
    IN  IF s = <<>> THEN NoOutcome ELSE s[1].out

\* Index of the first entry of a trace that satisfies a test, 0 if none.
FirstCall(trace, op) ==
    IF CallsOf(trace, op) = <<>> THEN 0
    ELSE CHOOSE i \in 1..Len(trace) :
            /\ trace[i].e = "call" /\ trace[i].op = op
            /\ \A j \in 1..(i - 1) : ~(trace[j].e = "call" /\ trace[j].op = op)
SettledAt(trace, op) ==
    IF OutcomeOf(trace, op) = NoOutcome THEN 0
    ELSE CHOOSE i \in 1..Len(trace) : trace[i].e = "settled" /\ trace[i].op = op
\* Operations called and not yet settled at the end of a trace.
InFlight(trace) == Len(Select(trace, "call")) - Len(Select(trace, "settled"))

LastOutcome(trace) ==
    LET s == Select(trace, "settled") IN IF s = <<>> THEN NoOutcome ELSE s[Len(s)].out

(***************************************************************************)
(* C24. A submission of SignInForm, SignUpForm, ResetPasswordForm or the   *)
(* home page's sign-out that ended in a failure has shown exactly one      *)
(* toast and navigated at most once.                                       *)
(***************************************************************************)
C24_OneToastPerFailure ==
    (/\ ui.form \in {"SignInForm", "SignUpForm", "ResetPasswordForm", "HomePage"}
     /\ ui.pc = "done"
     /\ LastOutcome(ui.trace).tag = "rejected") =>
        /\ Len(Toasts(ui.trace)) = 1
        /\ Len(Navigations(ui.trace)) <= 1

\* What the handler of a form does after the operation op settled with out.
After(form, op, out) ==
    IF form = "SignInForm" THEN SignInForm_afterSignIn(out)
    ELSE IF form = "SignUpForm" /\ op = "signUp" THEN SignUpForm_afterSignUp(out)
    ELSE IF form = "SignUpForm" THEN SignUpForm_afterSignIn(out)
    ELSE IF form = "ResetPasswordForm" THEN ResetPasswordForm_afterUpdatePassword(out)
    ELSE IF form = "ForgotPasswordForm" THEN ForgotPasswordForm_afterRequest(out)
    ELSE HomePage_afterSignOut(out)
\* The toasts and navigations among some entries.
Visible(evs) == SelectSeq(evs, LAMBDA x : x.e \in {"toast", "replace"})
LastSettledOp(trace) ==
    LET s == Select(trace, "settled") IN s[Len(s)].op

(***************************************************************************)
(* C25. What SignInForm, SignUpForm and ResetPasswordForm show for a       *)
(* failed operation depends on the error's code only: the same toasts and  *)
(* navigation follow for an error of the same code with any other message. *)
(***************************************************************************)
C25_CopyFromCodeOnly ==
    (/\ ui.form \in {"SignInForm", "SignUpForm", "ResetPasswordForm"}
     /\ ui.pc = "done"
     /\ LastOutcome(ui.trace).tag = "rejected"
     /\ LastOutcome(ui.trace).isError) =>
        \A m \in ProviderMessages :
            Visible(After(ui.form, LastSettledOp(ui.trace),
                          Rejected(JsError(m, LastOutcome(ui.trace).code))))
            = Visible(After(ui.form, LastSettledOp(ui.trace),
                            Rejected(JsError(LastOutcome(ui.trace).message,
                                             LastOutcome(ui.trace).code))))

(***************************************************************************)
(* C26. A ForgotPasswordForm submission ends the same way whether          *)
(* requestPasswordReset resolved or rejected: one success toast "Reset     *)
(* link sent if account exists", no error toast, no navigation.            *)
(***************************************************************************)
C26_SameOutcomeEitherWay ==
    (ui.form = "ForgotPasswordForm" /\ ui.pc = "done") =>
        /\ Toasts(ui.trace) = <<Toast("success", T_ResetLinkSent)>>
        /\ Navigations(ui.trace) = <<>>
        /\ ~IsLoading(ui.trace)

\* Reached: requestPasswordReset rejected and the form has finished.
C26_Witness ==
    /\ ui.form = "ForgotPasswordForm"
    /\ ui.pc = "done"
    /\ OutcomeOf(ui.trace, "requestPasswordReset").tag = "rejected"

FirstOf(trace, e) ==
    IF Select(trace, e) = <<>> THEN 0
    ELSE CHOOSE i \in 1..Len(trace) :
            trace[i].e = e /\ \A j \in 1..(i - 1) : trace[j].e # e

(***************************************************************************)
(* C28. SignInForm calls router.replace("/") once, after the success       *)
(* toast, exactly when signIn resolved; after a rejection it shows one     *)
(* error toast and does not navigate; once the handler has finished the    *)
(* loading flag is false.                                                  *)
(***************************************************************************)
C28_SignInFormNavigation ==
    ui.form = "SignInForm" =>
        LET out == OutcomeOf(ui.trace, "signIn")
            nav == Navigations(ui.trace)
            toasts == Toasts(ui.trace)
        IN  /\ (nav # <<>>) <=> (out.tag = "resolved")
            /\ out.tag = "resolved" =>
                /\ nav = <<RouterReplace("/")>>
                /\ toasts = <<Toast("success", T_SignedIn)>>
                /\ FirstOf(ui.trace, "toast") < FirstOf(ui.trace, "replace")
            /\ out.tag = "rejected" =>
                /\ Len(toasts) = 1
                /\ toasts[1].kind = "error"
            /\ ui.pc = "done" => ~IsLoading(ui.trace)
            /\ ui.pc # "done" => IsLoading(ui.trace)

\* Reached: signIn rejected and the handler has finished.
C28_Witness ==
    /\ ui.form = "SignInForm"
    /\ ui.pc = "done"
    /\ OutcomeOf(ui.trace, "signIn").tag = "rejected"
    /\ Navigations(ui.trace) = <<>>

(***************************************************************************)
(* C29. ResetPasswordForm calls router.replace("/login") at most once, and *)
(* only when updatePassword has resolved, the success toast has been shown *)
(* and the timer set after it has fired; after a resolved updatePassword   *)
(* the redirect is either pending on the timer or issued; after a rejected *)
(* one an error toast is shown and no timer or redirect exists.            *)
(***************************************************************************)
C29_ResetRedirect ==
    ui.form = "ResetPasswordForm" =>
        LET out == OutcomeOf(ui.trace, "updatePassword")
            nav == Navigations(ui.trace)
            toasts == Toasts(ui.trace)
        IN  /\ Len(nav) <= 1
            /\ nav # <<>> =>
                /\ nav = <<RouterReplace("/login")>>
                /\ out.tag = "resolved"
                /\ ~ui.timer
                /\ 0 < FirstOf(ui.trace, "toast")
                /\ FirstOf(ui.trace, "toast") < FirstOf(ui.trace, "setTimeout")
                /\ FirstOf(ui.trace, "setTimeout") < FirstOf(ui.trace, "replace")
            /\ out.tag = "resolved" =>
                /\ toasts = <<Toast("success", T_PasswordUpdated)>>
                /\ ui.timer <=> (nav = <<>>)
            /\ out.tag = "rejected" =>
                /\ nav = <<>>
                /\ ~ui.timer
                /\ Select(ui.trace, "setTimeout") = <<>>
                /\ Len(toasts) = 1
                /\ toasts[1].kind = "error"

\* Reached: the redirect has been issued.
C29_Witness ==
    /\ ui.form = "ResetPasswordForm"
    /\ Navigations(ui.trace) = <<RouterReplace("/login")>>

\* The cookie jar holds a session the server's getSession maps.
C30_CookieSession(jar) == jar.kind = "session" /\ TruthyAtom(jar.session.user.email)

(***************************************************************************)
(* C30. The session the server-side getSession returns for a request is    *)
(* present exactly when the request's cookies hold a session with an       *)
(* email, and is that session, whatever the Auth State Store and the       *)
(* browser's local storage hold.                                           *)
(***************************************************************************)
C30_ServerSessionFromCookiesOnly ==
    rendered.route = "/" =>
        /\ ~IsNull(rendered.session) <=> C30_CookieSession(cookies)
        /\ ~IsNull(rendered.session) =>
            Val(rendered.session).user.email = cookies.session.user.email

\* Reached: the store is authenticated and local storage holds a session,
\* the cookies hold none, and the server found no session.
C30_Witness ==
    /\ rendered.route = "/"
    /\ state.status = "authenticated"
    /\ ~IsNull(localStorage)
    /\ cookies = NoCookie
    /\ IsNull(rendered.session)

(***************************************************************************)
(* C36. When the repository's signUp rejects with an Error that carries a  *)
(* code, whatever its message (the empty message included), the error the  *)
(* caller of AuthService.signUp observes carries the same code.            *)
(***************************************************************************)
C36_SignUpKeepsCode ==
    (/\ call.op = "signUp"
     /\ call.repo.tag = "rejected"
     /\ call.repo.error.kind = "Error"
     /\ Truthy(call.repo.error.code)) =>
        /\ call.svc.tag = "rejected"
        /\ call.svc.error.code = call.repo.error.code

(***************************************************************************)
(* C38. A SignUpForm submission sets the loading flag first; the flag      *)
(* stays set while a call it issued has not settled, and is cleared when   *)
(* the flow has ended, on each of its paths: signUp resolved, duplicate    *)
(* email followed by a resolved or a rejected sign-in, any other signUp    *)
(* error.                                                                  *)
(***************************************************************************)
C38_LoadingClearedAtEnd ==
    ui.form = "SignUpForm" =>
        /\ ui.trace[1] = SetIsLoading(TRUE)
        /\ ui.pc = "done" <=> InFlight(ui.trace) = 0
        /\ ui.pc = "done" <=> ~IsLoading(ui.trace)
        /\ ui.pc = "done" => ui.trace[Len(ui.trace)] = SetIsLoading(FALSE)

\* Reached: the flow ended on a non-duplicate signUp error.
C38_Witness ==
    /\ ui.form = "SignUpForm"
    /\ ui.pc = "done"
    /\ OutcomeOf(ui.trace, "signUp").tag = "rejected"
    /\ OutcomeOf(ui.trace, "signUp").code # S_user_already_exists
    /\ ~IsLoading(ui.trace)

(***************************************************************************)
(* C32. After a sign-out completed successfully, from the home page        *)
(* (client AuthService.signOut) or by the dashboard's server action, the   *)
(* client store is unauthenticated, the server's session read for the      *)
(* browser's cookies returns null, and a request for "/" is answered with  *)
(* a redirect to /login.                                                   *)
(***************************************************************************)
C32_SignOutEndsBothViews ==
    (\/ lastOp.op = "handleSignOut" /\ lastOp.ok
     \/ lastOp.op = "signOutAction") =>
        /\ state.status = "unauthenticated"
        /\ IsNull(ServerGetSession(ServerAuthGetSession(cookies)))
        /\ Render("/", cookies).view = "redirect:/login"

\* How many times a listener's log holds a version.
Count(log, v) == Len(SelectSeq(log, LAMBDA x : x = v))

\* A step of the notification loop after which the loop has visited every
\* entry of the listener set.
CycleCompletes ==
    /\ cycle.active
    /\ ~cycle'.active
    /\ listeners' = listeners => cycle.idx + 1 = Len(listeners)

(***************************************************************************)
(* C33. Removing a listener from inside a callback does not corrupt the    *)
(* notification cycle: the listener a step of the loop invokes still has   *)
(* an unsubscribe function that was not called, and when a cycle in which  *)
(* callbacks kept the value or unsubscribed has visited every entry, each  *)
(* listener still subscribed has been invoked exactly once for the event.  *)
(***************************************************************************)
C33_RemovalKeepsCycleIntact ==
    [][cycle.active =>
        /\ \E i \in 1..Len(closures) : closures[i].l = lastOp'.l /\ ~closures[i].called
        /\ (CycleCompletes /\ ~lastOp'.subs) =>
            \A i \in 1..Len(listeners') : Count(delivered'[listeners'[i]], version) = 1]_vars

\* Reached: listener 1 was removed during a cycle, which completed with
\* listener 2, still subscribed, invoked once for the event.
C33_Witness ==
    /\ ~cycle.active
    /\ lastOp.op = "deliver"
    /\ lastOp.l = 2
    /\ lastOp.cut = {1}
    /\ ~lastOp.subs
    /\ listeners = <<2>>
    /\ Count(delivered[2], version) = 1

(***************************************************************************)
(* C34. Listeners are independent during notification: when the            *)
(* notification loop of a provider event has stopped, every registered     *)
(* listener has received that event's state, also when the callback of     *)
(* one of them threw.                                                      *)
(***************************************************************************)
C34_ThrowDoesNotStarveOthers ==
    [][(cycle.active /\ ~cycle'.active) =>
        \A i \in 1..Len(listeners') : Count(delivered'[listeners'[i]], version) >= 1]_vars

(***************************************************************************)
(* C35. A listener receives the state of a provider event at most once     *)
(* while that event is being published: the listener a step of the loop    *)
(* invokes has not received this event's state before, also when it was    *)
(* subscribed, and replayed to, from inside a callback of this loop.        *)
(***************************************************************************)
C35_AtMostOncePerEvent ==
    [][cycle.active => Count(delivered[lastOp'.l], version) = 0]_vars

(***************************************************************************)
(* useAuth and RequireAuth: component instances over the store.             *)
(***************************************************************************)
\* A variant that shows the children while the status is still loading.
RequireAuth_ShowsWhileLoading(status) ==
    [children |-> status # "unauthenticated", redirect |-> status = "unauthenticated"]

\* RequireAuth for the status useAuth returns: the effect calls
\* router.replace("/login") if unauthenticated; null is rendered while
\* loading or unauthenticated, the children otherwise.
RequireAuth(status) ==
    [children |-> status \notin {"loading", "unauthenticated"},
     redirect |-> status = "unauthenticated"]

\* The operations of authService; useAuth returns the first five.
ServiceOperations ==
    {"signIn", "signUp", "signOut", "requestPasswordReset", "updatePassword",
     "getSession", "getCurrentUser"}

\* The outcomes of each operation over every provider response.
ServiceOutcomes ==
    [name \in ServiceOperations |->
        CASE name = "signIn" -> {ServiceSignIn(RepoSignIn(resp)) : resp \in SignInResponses}
          [] name = "signUp" -> {ServiceSignUp(RepoSignUp(resp)) : resp \in SignUpResponses}
          [] name = "signOut" ->
                {ServiceSignOut(RepoSignOut(resp)) : resp \in ErrorOnlyResponses}
          [] name = "requestPasswordReset" ->
                {ServiceRequestPasswordReset(RepoRequestPasswordReset(resp)) :
                    resp \in ErrorOnlyResponses}
          [] name = "updatePassword" ->
                {ServiceUpdatePassword(RepoUpdatePassword(resp)) : resp \in ErrorOnlyResponses}
          [] name = "getSession" ->
                {ServiceGetSession(RepoGetSession(resp)) : resp \in GetSessionResponses}
          [] name = "getCurrentUser" ->
                {ServiceGetCurrentUser(RepoGetCurrentUser(resp)) : resp \in GetUserResponses}]

\* A variant in which a resolved signOut clears the stored state itself.
StoreAfterCall_SignsOut(st, name, out) ==
    IF name = "signOut" /\ out.tag = "resolved" THEN UnauthenticatedState ELSE st

\* The observer's state after an operation of authService or useAuth has
\* settled: they call the repository only and hold no reference to the
\* observer's state.
StoreAfterCall(st, name, out) == st

\* A variant of the effect's cleanup that does not call unsubscribe.
CleanupDeletes_Nothing(ls, l) == ls

\* The effect's cleanup: unsubscribe(), which deletes the listener.
CleanupDeletes(ls, l) == SetDelete(ls, l)

\* First render of a component that calls useAuth:
\* useState(() => authStateObserver.getSnapshot()); effects have not run.
UseAuthRender ==
    /\ ~cycle.active
    /\ \E c \in Instances :
        /\ hooks[c].phase = "unmounted"
        /\ hooks' = [hooks EXCEPT ![c] =
                        [phase |-> "rendered", listener |-> 0, closure |-> 0,
                         state |-> GetSnapshot(state),
                         out |-> [children |-> RequireAuth(state.status).children,
                                  redirect |-> FALSE],
                         stale |-> hooks[c].stale]]
        /\ lastOp' = [op |-> "render", c |-> c]
    /\ UNCHANGED <<state, heap, listeners, unsubscribe, channel, cycle, version, delivered,
                   seen, held, handles, closures, events, subscribes, svcVars, pageVars, ui>>

\* useAuth's effect after the first commit: subscribe a new listener
\* function (newState) => setState(newState), which the store replays the
\* current snapshot to; the component renders again and its effects run.
UseAuthEffect ==
    /\ ~cycle.active
    /\ subscribes < MaxSubscribes
    /\ subscribes + 1 \in Listeners
    /\ \E c \in Instances :
        /\ hooks[c].phase = "rendered"
        /\ LET l == subscribes + 1
               value == GetSnapshot(state)
           IN /\ listeners' = SetAdd(listeners, l)
              /\ delivered' = Invoke(delivered, SubscribeInvokes(l))
              /\ seen' = [seen EXCEPT ![l] = Deep(value, heap)]
              /\ held' = [held EXCEPT ![l] = value]
              /\ handles' = handles \cup {l}
              /\ closures' = Append(closures, Closure(l))
              /\ hooks' = [hooks EXCEPT ![c] =
                            [phase |-> "mounted", listener |-> l,
                             closure |-> Len(closures) + 1, state |-> value,
                             out |-> RequireAuth(value.status),
                             stale |-> hooks[c].stale]]
              /\ lastOp' = [op |-> "subscribe", l |-> l]
    /\ subscribes' = subscribes + 1
    /\ UNCHANGED <<state, heap, version, unsubscribe, channel, cycle, events, svcVars,
                   pageVars, ui>>

\* The component unmounts: the effect's cleanup calls unsubscribe().
UseAuthCleanup ==
    /\ ~cycle.active
    /\ \E c \in Instances :
        /\ hooks[c].phase = "mounted"
        /\ listeners' = CleanupDeletes(listeners, closures[hooks[c].closure].l)
        /\ closures' = [closures EXCEPT ![hooks[c].closure].called = TRUE]
        /\ hooks' = [hooks EXCEPT ![c].phase = "unmounted", ![c].out = NoOutput]
        /\ lastOp' = [op |-> "unsubscribe", l |-> hooks[c].listener, again |-> FALSE]
    /\ UNCHANGED <<state, heap, unsubscribe, channel, cycle, version, delivered, seen, held,
                   handles, events, subscribes, svcVars, pageVars, ui>>

\* One iteration of updateState's forEach over listeners that are useAuth's:
\* setState(newState); a mounted component renders again and its effects
\* run, the setter of an unmounted one has been called after its unmount.
SetState ==
    /\ cycle.active
    /\ LET l == listeners[cycle.idx + 1]
           value == GetSnapshot(state)
       IN /\ cycle' = ForEachAt(listeners, cycle.idx + 1)
          /\ delivered' = Invoke(delivered, <<l>>)
          /\ seen' = [seen EXCEPT ![l] = Deep(value, heap)]
          /\ held' = [held EXCEPT ![l] = value]
          /\ hooks' = [c \in Instances |->
                        IF hooks[c].listener # l THEN hooks[c]
                        ELSE IF hooks[c].phase = "mounted"
                        THEN [hooks[c] EXCEPT !.state = value,
                                              !.out = RequireAuth(value.status)]
                        ELSE [hooks[c] EXCEPT !.stale = TRUE]]
          /\ lastOp' = [op |-> "deliver", l |-> l, sub |-> 0,
                        subs |-> lastOp.op = "deliver" /\ lastOp.subs,
                        cut |-> IF lastOp.op = "deliver" THEN lastOp.cut ELSE {}]
    /\ UNCHANGED <<state, heap, listeners, unsubscribe, channel, version, handles, closures,
                   events, subscribes, svcVars, pageVars, ui>>

\* An operation of authService, called directly or through useAuth, has
\* settled; of several that settle one after the other, the last.
UseAuthCall ==
    /\ ~cycle.active
    /\ lastOp.op # "call"
    /\ \E name \in ServiceOperations :
        \E out \in ServiceOutcomes[name] :
            /\ state' = StoreAfterCall(state, name, out)
            /\ lastOp' = [op |-> "call", name |-> name, ok |-> out.tag = "resolved"]
    /\ UNCHANGED <<heap, listeners, unsubscribe, channel, cycle, version, delivered, seen,
                   held, handles, closures, events, subscribes, svcVars, pageVars, formVars>>

InitHooks ==
    /\ call = NoCall
    /\ InitStore
    /\ NoBrowser

NextHooks ==
    \/ ProviderEvent
    \/ SetState
    \/ UseAuthRender
    \/ UseAuthEffect
    \/ UseAuthCleanup
    \/ UseAuthCall

SpecHooks == InitHooks /\ [][NextHooks]_vars

(***************************************************************************)
(* C37. RequireAuth over the status useAuth returns: it shows its children *)
(* exactly while that status is authenticated; once its effects have run   *)
(* it has called router.replace("/login") exactly while the status is      *)
(* unauthenticated; while loading it shows nothing and redirects nowhere;  *)
(* and outside a notification loop the status of a mounted instance is the *)
(* store's.                                                                 *)
(***************************************************************************)
C37_RequireAuthGate ==
    \A c \in Instances :
        hooks[c].phase # "unmounted" =>
            LET status == hooks[c].state.status
                out == hooks[c].out
            IN  /\ out.children <=> status = "authenticated"
                /\ out.redirect => status = "unauthenticated"
                /\ hooks[c].phase = "mounted" =>
                    (out.redirect <=> status = "unauthenticated")
                /\ status = "loading" => ~out.children /\ ~out.redirect
                /\ (hooks[c].phase = "mounted" /\ ~cycle.active) =>
                    hooks[c].state = GetSnapshot(state)

\* Reached: one mounted instance that showed its children was told of a
\* sign-out and redirects, another is mounted while the store is loading.
C37_Witness ==
    \E c \in Instances :
        /\ hooks[c].phase = "mounted"
        /\ hooks[c].state.status = "unauthenticated"
        /\ hooks[c].out = [children |-> FALSE, redirect |-> TRUE]
        /\ Len(delivered[hooks[c].listener]) >= 2

\* Reached: an instance is mounted while the store is still loading.
C37_LoadingReached ==
    \E c \in Instances :
        /\ hooks[c].phase = "mounted"
        /\ hooks[c].state.status = "loading"

\* The listeners of the instances that are mounted.
MountedListeners == {hooks[c].listener : c \in {d \in Instances : hooks[d].phase = "mounted"}}

(***************************************************************************)
(* C39. The store's listeners are exactly the listener functions of the    *)
(* mounted useAuth instances, one each and none twice; an unmounted        *)
(* instance's listener is not among them, and no state setter of an        *)
(* unmounted instance has been invoked.                                    *)
(***************************************************************************)
C39_OneListenerPerMountedInstance ==
    /\ Len(listeners) = Cardinality(MountedListeners)
    /\ {listeners[i] : i \in 1..Len(listeners)} = MountedListeners
    /\ Cardinality(MountedListeners) =
            Cardinality({c \in Instances : hooks[c].phase = "mounted"})
    /\ \A c \in Instances :
        /\ hooks[c].phase # "mounted" => Position(listeners, hooks[c].listener) = 0
        /\ ~hooks[c].stale

\* Reached: an instance was mounted and unmounted, and an event that came
\* after was delivered to the instance still mounted and not to its listener.
C39_Witness ==
    \E c, d \in Instances :
        /\ hooks[c].phase = "unmounted"
        /\ hooks[c].listener # 0
        /\ hooks[d].phase = "mounted"
        /\ ~cycle.active
        /\ version > 0
        /\ Count(delivered[hooks[d].listener], version) = 1
        /\ Count(delivered[hooks[c].listener], version) = 0

(***************************************************************************)
(* C31. The state the store holds, with the user and the session it refers *)
(* to, changes only in a step in which the observer handles a provider     *)
(* change event: no operation of authService or useAuth, settled with      *)
(* either outcome, no subscribe and no unsubscribe changes it.             *)
(***************************************************************************)
C31_OnlyProviderEventsChangeState ==
    [][(state' # state \/ Deep(state', heap') # Deep(state, heap)) =>
            lastOp'.op = "event"]_vars

\* Reached: signOut has resolved and the store still says authenticated.
C31_Witness ==
    /\ lastOp.op = "call"
    /\ lastOp.name = "signOut"
    /\ lastOp.ok
    /\ state.status = "authenticated"
    /\ listeners # <<>>

====
